---------------------------- MODULE Spec2Model ----------------------------
(***************************************************************************)
(* Model of the filter-expression parser and evaluator and of the filter   *)
(* utilities of the tag-tree plugin.                                       *)
(*                                                                         *)
(* Strings are sequences of one-character strings.  String positions are   *)
(* the 0-based positions of the source: the character at position p of s   *)
(* is s[p + 1].                                                            *)
(***************************************************************************)
EXTENDS Integers, Sequences, FiniteSets, TLC

VARIABLES
    pc,             \* the operation that produced the current state
    expression,     \* the string handed to ExpressionParser.parse
    tokens,         \* ExpressionParser.tokens
    current,        \* ExpressionParser.current
    errors,         \* ExpressionParser.errors
    result,         \* the ParseResult returned by the last parse
    filterResults,  \* the Map<string, boolean> handed to evaluate
    evalResult,     \* what evaluate returned, and the warnings it logged
    validLabels,    \* the string[] handed to validateFilterLabels
    validation,     \* the string[] returned by validateFilterLabels
    labels,         \* the string[] handed to generateDefaultExpression
    path,           \* the path handed to matchWildcard
    pattern,        \* the pattern handed to matchWildcard
    matchResult     \* what matchWildcard returned


exprVars == <<expression, tokens, current, errors, result, filterResults,
              evalResult, validLabels, validation, labels>>

wildVars == <<path, pattern, matchResult>>

VARIABLES
    tag,            \* the tag of a document's metadata, as the host gives it
    hierarchy,      \* what parseTagHierarchy returned for it
    normalizedTag      \* what normalizeTag returned for it

tagVars == <<tag, hierarchy, normalizedTag>>

VARIABLES
    vault,                  \* what the host holds for each file
    tagToFiles,             \* VaultIndexer.tagToFiles
    propertyToValueToFiles, \* VaultIndexer.propertyToValueToFiles
    fileToTags,             \* VaultIndexer.fileToTags
    fileToProperties,       \* VaultIndexer.fileToProperties
    tagHierarchyCache,      \* VaultIndexer.tagHierarchyCache
    updateQueue,            \* VaultIndexer.updateQueue
    updateTimer,            \* VaultIndexer.updateTimer (0 for null)
    timers,                 \* the host's timers: the next handle, and the
                            \* pending timers with the time left to each
    filesToUpdate,          \* the call of processBatchUpdate in progress
    indexUpdated,           \* whether the last step triggered 'index-updated'
    tree,                   \* the tree returned by the build just called
    treeCache,              \* TreeBuilder.treeCache
    lastIndexTime,          \* VaultIndexer.lastIndexTime (0 before it is set)
    history                 \* what has happened, for stating the properties

indexVars == <<tagToFiles, propertyToValueToFiles, fileToTags,
               fileToProperties, tagHierarchyCache>>

batchVars == <<updateQueue, updateTimer, timers, filesToUpdate>>

VARIABLES
    treeComponent,          \* whether TagTreeView.treeComponent is set
    saveStateTimer,         \* TagTreeView.saveStateTimer (0 for null)
    saves,                  \* the calls of plugin.saveSettings() by the view
    data,                   \* what loadData() returned
    settings,               \* the plugin's settings
    savedData               \* what saveData() was last given

pluginVars == <<treeComponent, saveStateTimer, saves, data, settings,
                savedData>>

vaultVars == <<vault, indexVars, batchVars, indexUpdated, tree, treeCache,
               lastIndexTime, history, pluginVars>>

vars == <<pc, expression, tokens, current, errors, result, filterResults,
          evalResult, validLabels, validation, labels, path, pattern,
          matchResult, tagVars, vaultVars>>

(***************************************************************************)
(* Characters                                                              *)
(***************************************************************************)
LowerCase ==
    <<"a","b","c","d","e","f","g","h","i","j","k","l","m",
      "n","o","p","q","r","s","t","u","v","w","x","y","z">>

UpperCase ==
    <<"A","B","C","D","E","F","G","H","I","J","K","L","M",
      "N","O","P","Q","R","S","T","U","V","W","X","Y","Z">>

Range(s) == {s[i] : i \in DOMAIN s}

\* /[a-zA-Z]/
IsLetter(c) == c \in Range(LowerCase) \cup Range(UpperCase)

\* /[a-zA-Z0-9_-]/
IsLabelChar(c) ==
    \/ IsLetter(c)
    \/ c \in {"0","1","2","3","4","5","6","7","8","9"}
    \/ c \in {"_", "-"}

\* /\s/ (and the characters String.prototype.trim removes)
IsWhitespace(c) == c \in {" ", "\t", "\n", "\r"}

toUpperCaseChar(c) ==
    IF \E i \in DOMAIN LowerCase : LowerCase[i] = c
    THEN UpperCase[CHOOSE i \in DOMAIN LowerCase : LowerCase[i] = c]
    ELSE c

\* toUpperCase leaving every character as it is
toUpperCaseNoop(s) == s

toUpperCase(s) == [i \in DOMAIN s |-> toUpperCaseChar(s[i])]

toLowerCaseChar(c) ==
    IF \E i \in DOMAIN UpperCase : UpperCase[i] = c
    THEN LowerCase[CHOOSE i \in DOMAIN UpperCase : UpperCase[i] = c]
    ELSE c

toLowerCase(s) == [i \in DOMAIN s |-> toLowerCaseChar(s[i])]

\* String.prototype.trim() === ''
TrimIsEmpty(s) == \A i \in DOMAIN s : IsWhitespace(s[i])

(***************************************************************************)
(* Tokenizer                                                               *)
(***************************************************************************)
Token(type, value, position) ==
    [type |-> type, value |-> value, position |-> position]

EOFToken(position) == Token("EOF", <<>>, position)

RECURSIVE SkipWhitespace(_, _)
SkipWhitespace(input, position) ==
    IF position < Len(input) /\ IsWhitespace(input[position + 1])
    THEN SkipWhitespace(input, position + 1)
    ELSE position

RECURSIVE ReadWord(_, _, _)
ReadWord(input, position, value) ==
    IF position < Len(input) /\ IsLabelChar(input[position + 1])
    THEN ReadWord(input, position + 1, Append(value, input[position + 1]))
    ELSE [value |-> value, position |-> position]

\* An Error thrown with the given message parts.
Thrown(kind, position, value) ==
    [thrown |-> TRUE,
     error |-> [kind |-> kind, position |-> position, value |-> value]]

\* Tokenizer.nextToken: the token and the tokenizer's new position, or the
\* Error it throws.
nextToken(input, position0) ==
    LET position == SkipWhitespace(input, position0) IN
    IF position >= Len(input)
    THEN [thrown |-> FALSE, token |-> EOFToken(position), position |-> position]
    ELSE
      LET start == position
          char  == input[position + 1]
          single(type) ==
              [thrown |-> FALSE, token |-> Token(type, <<char>>, start),
               position |-> position + 1]
      IN
      IF char = "(" THEN single("LPAREN")
      ELSE IF char = ")" THEN single("RPAREN")
      ELSE IF char = "&" THEN single("AND")
      ELSE IF char = "|" THEN single("OR")
      ELSE IF char = "!" THEN single("NOT")
      ELSE IF IsLetter(char)
      THEN
        LET w == ReadWord(input, position, <<>>)
            upperValue == toUpperCase(w.value)
            word(type, value) ==
                [thrown |-> FALSE, token |-> Token(type, value, start),
                 position |-> w.position]
        IN
        IF upperValue = <<"A","N","D">> THEN word("AND", <<"A","N","D">>)
        ELSE IF upperValue = <<"O","R">> THEN word("OR", <<"O","R">>)
        ELSE IF upperValue = <<"N","O","T">> THEN word("NOT", <<"N","O","T">>)
        ELSE word("LABEL", w.value)
      ELSE Thrown("Unexpected character", position, <<char>>)

\* The tokenizing loop of parse: the tokens pushed so far and, when
\* nextToken throws, the Error.
RECURSIVE TokenizeLoop(_, _, _)
TokenizeLoop(input, position, toks) ==
    LET t == nextToken(input, position) IN
    IF t.thrown
    THEN [thrown |-> TRUE, error |-> t.error, tokens |-> toks]
    ELSE IF t.token.type = "EOF"
    THEN [thrown |-> FALSE, tokens |-> Append(toks, t.token)]
    ELSE TokenizeLoop(input, t.position, Append(toks, t.token))

(***************************************************************************)
(* ExpressionParser                                                        *)
(***************************************************************************)
NULL == [type |-> "null"]

Filter(label) == [type |-> "filter", label |-> label]
Not(operand)  == [type |-> "not", operand |-> operand]
And(left, right) == [type |-> "and", left |-> left, right |-> right]
Or(left, right)  == [type |-> "or", left |-> left, right |-> right]

currentToken(toks, cur) ==
    IF cur + 1 \in DOMAIN toks THEN toks[cur + 1] ELSE EOFToken(0)

advance(toks, cur) ==
    IF cur < Len(toks) - 1 THEN cur + 1 ELSE cur

\* What a parse method hands back: the node and the parser's new `current`,
\* or the Error it throws (with `current` as it stands then).
Returned(node, cur) == [thrown |-> FALSE, node |-> node, current |-> cur]

Raised(kind, position, value, cur) ==
    [thrown |-> TRUE, current |-> cur,
     error |-> [kind |-> kind, position |-> position, value |-> value]]

\* The call of a parse method from within another one: this.<method>().
RECURSIVE call(_, _, _, _)

\* parsePrimary without the check for the closing parenthesis.
parsePrimaryNoClose(toks, cur) ==
    LET token == currentToken(toks, cur) IN
    IF token.type = "LABEL"
    THEN Returned(Filter(token.value), advance(toks, cur))
    ELSE IF token.type = "LPAREN"
    THEN
      LET expr == call("parseOr", toks, advance(toks, cur), NULL) IN
      IF expr.thrown THEN expr
      ELSE Returned(expr.node, advance(toks, expr.current))
    ELSE Raised("Expected label or '('", token.position, token.value, cur)

parsePrimary(toks, cur) ==
    LET token == currentToken(toks, cur) IN
    IF token.type = "LABEL"
    THEN Returned(Filter(token.value), advance(toks, cur))
    ELSE IF token.type = "LPAREN"
    THEN
      LET expr == call("parseOr", toks, advance(toks, cur), NULL) IN
      IF expr.thrown THEN expr
      ELSE IF currentToken(toks, expr.current).type # "RPAREN"
      THEN Raised("Expected ')'",
                  currentToken(toks, expr.current).position, <<>>,
                  expr.current)
      ELSE Returned(expr.node, advance(toks, expr.current))
    ELSE Raised("Expected label or '('", token.position, token.value, cur)

\* parseNot taking a whole AND expression as the operand of NOT
parseNotLoose(toks, cur) ==
    IF currentToken(toks, cur).type = "NOT"
    THEN
      LET operand == call("parseAnd", toks, advance(toks, cur), NULL) IN
      IF operand.thrown THEN operand
      ELSE Returned(Not(operand.node), operand.current)
    ELSE call("parsePrimary", toks, cur, NULL)

parseNot(toks, cur) ==
    IF currentToken(toks, cur).type = "NOT"
    THEN
      LET operand == call("parseNot", toks, advance(toks, cur), NULL) IN
      IF operand.thrown THEN operand
      ELSE Returned(Not(operand.node), operand.current)
    ELSE call("parsePrimary", toks, cur, NULL)

\* the while loop of parseAnd, entered with `left` parsed
parseAndLoop(toks, cur, left) ==
    IF currentToken(toks, cur).type = "AND"
    THEN
      LET right == call("parseNot", toks, advance(toks, cur), NULL) IN
      IF right.thrown THEN right
      ELSE call("parseAndLoop", toks, right.current, And(left, right.node))
    ELSE Returned(left, cur)

parseAnd(toks, cur) ==
    LET left == call("parseNot", toks, cur, NULL) IN
    IF left.thrown THEN left
    ELSE call("parseAndLoop", toks, left.current, left.node)

\* the while loop of parseOr, entered with `left` parsed
parseOrLoop(toks, cur, left) ==
    IF currentToken(toks, cur).type = "OR"
    THEN
      LET right == call("parseAnd", toks, advance(toks, cur), NULL) IN
      IF right.thrown THEN right
      ELSE call("parseOrLoop", toks, right.current, Or(left, right.node))
    ELSE Returned(left, cur)

parseOr(toks, cur) ==
    LET left == call("parseAnd", toks, cur, NULL) IN
    IF left.thrown THEN left
    ELSE call("parseOrLoop", toks, left.current, left.node)

call(method, toks, cur, left) ==
    CASE method = "parseOr"      -> parseOr(toks, cur)
      [] method = "parseOrLoop"  -> parseOrLoop(toks, cur, left)
      [] method = "parseAnd"     -> parseAnd(toks, cur)
      [] method = "parseAndLoop" -> parseAndLoop(toks, cur, left)
      [] method = "parseNot"     -> parseNot(toks, cur)
      [] method = "parsePrimary" -> parsePrimary(toks, cur)

\* The error parse pushes for a token left over after the expression.
UnexpectedToken(token) ==
    [kind |-> "Unexpected token", position |-> token.position,
     value |-> token.value]

\* What parse leaves behind: the ParseResult it returns (or that it threw)
\* and the fields of the parser instance.
ParseOutcome(thrown, ast, errs, toks, cur) ==
    [thrown |-> thrown, ast |-> ast, errors |-> errs,
     tokens |-> toks, current |-> cur]

\* parse returning the AST also when an error was pushed
parseKeepAst(expr, oldTokens) ==
    IF TrimIsEmpty(expr)
    THEN ParseOutcome(FALSE, NULL, <<>>, oldTokens, 0)
    ELSE
      LET tk == TokenizeLoop(expr, 0, <<>>) IN
      IF tk.thrown
      THEN ParseOutcome(FALSE, NULL, <<tk.error>>, tk.tokens, 0)
      ELSE
        LET p == call("parseOr", tk.tokens, 0, NULL) IN
        IF p.thrown
        THEN ParseOutcome(FALSE, NULL, <<p.error>>, tk.tokens, p.current)
        ELSE
          LET left == currentToken(tk.tokens, p.current)
              errs == IF left.type # "EOF"
                      THEN <<UnexpectedToken(left)>> ELSE <<>>
          IN ParseOutcome(FALSE, p.node, errs, tk.tokens, p.current)

\* parse without `this.tokens = []`: the tokens are pushed after those of
\* the call before
parseKeepTokens(expr, oldTokens) ==
    IF TrimIsEmpty(expr)
    THEN ParseOutcome(FALSE, NULL, <<>>, oldTokens, 0)
    ELSE
      LET tk == TokenizeLoop(expr, 0, oldTokens) IN
      IF tk.thrown
      THEN ParseOutcome(FALSE, NULL, <<tk.error>>, tk.tokens, 0)
      ELSE
        LET p == call("parseOr", tk.tokens, 0, NULL) IN
        IF p.thrown
        THEN ParseOutcome(FALSE, NULL, <<p.error>>, tk.tokens, p.current)
        ELSE
          LET left == currentToken(tk.tokens, p.current)
              errs == IF left.type # "EOF"
                      THEN <<UnexpectedToken(left)>> ELSE <<>>
          IN ParseOutcome(FALSE,
                          IF Len(errs) = 0 THEN p.node ELSE NULL,
                          errs, tk.tokens, p.current)

\* ExpressionParser.parse on an instance whose `tokens` field holds oldTokens.
parse(expr, oldTokens) ==
    IF TrimIsEmpty(expr)
    THEN ParseOutcome(FALSE, NULL, <<>>, oldTokens, 0)
    ELSE
      LET tk == TokenizeLoop(expr, 0, <<>>) IN
      IF tk.thrown
      THEN \* catch
           ParseOutcome(FALSE, NULL, <<tk.error>>, tk.tokens, 0)
      ELSE
        LET p == call("parseOr", tk.tokens, 0, NULL) IN
        IF p.thrown
        THEN \* catch
             ParseOutcome(FALSE, NULL, <<p.error>>, tk.tokens, p.current)
        ELSE
          LET left == currentToken(tk.tokens, p.current)
              errs == IF left.type # "EOF"
                      THEN <<UnexpectedToken(left)>> ELSE <<>>
          IN ParseOutcome(FALSE,
                          IF Len(errs) = 0 THEN p.node ELSE NULL,
                          errs, tk.tokens, p.current)

(***************************************************************************)
(* validateFilterLabels                                                    *)
(***************************************************************************)
UnknownLabel(label, valid) ==
    [kind |-> "Unknown filter label", label |-> label, available |-> valid]

RECURSIVE traverse(_, _, _)

\* traverse reporting each unknown label once only
traverseOnce(node, valid, errs) ==
    IF node.type = "filter"
    THEN IF /\ node.label \notin Range(valid)
            /\ UnknownLabel(node.label, valid) \notin Range(errs)
         THEN Append(errs, UnknownLabel(node.label, valid))
         ELSE errs
    ELSE IF node.type = "not"
    THEN traverse(node.operand, valid, errs)
    ELSE LET afterLeft == traverse(node.left, valid, errs)
         IN traverse(node.right, valid, afterLeft)

traverse(node, valid, errs) ==
    IF node.type = "filter"
    THEN IF node.label \notin Range(valid)
         THEN Append(errs, UnknownLabel(node.label, valid))
         ELSE errs
    ELSE IF node.type = "not"
    THEN traverse(node.operand, valid, errs)
    ELSE LET afterLeft == traverse(node.left, valid, errs)
         IN traverse(node.right, valid, afterLeft)

validateFilterLabels(ast, valid) ==
    IF ast # NULL THEN traverse(ast, valid, <<>>) ELSE <<>>

(***************************************************************************)
(* ExpressionEvaluator                                                     *)
(***************************************************************************)
\* What an evaluation hands back: the boolean and the labels console.warn
\* was called for, in order.
Evaluated(value, warnings) == [value |-> value, warnings |-> warnings]

RECURSIVE evaluateNode(_, _)

\* case 'filter' with a lookup that reads an absent label as true
filterCaseFailOpen(node, fr) ==
    IF node.label \notin DOMAIN fr
    THEN Evaluated(TRUE, <<node.label>>)
    ELSE Evaluated(fr[node.label], <<>>)

\* case 'filter': filterResults.get(label), undefined read as false
filterCase(node, fr) ==
    IF node.label \notin DOMAIN fr
    THEN Evaluated(FALSE, <<node.label>>)
    ELSE Evaluated(fr[node.label], <<>>)

\* case 'not'
notCase(node, fr) ==
    LET r == evaluateNode(node.operand, fr)
    IN Evaluated(~r.value, r.warnings)

\* case 'and' evaluating both operands before combining them
andCaseEager(node, fr) ==
    LET leftResult == evaluateNode(node.left, fr)
        r == evaluateNode(node.right, fr)
    IN Evaluated(leftResult.value /\ r.value,
                 leftResult.warnings \o r.warnings)

\* case 'and'
andCase(node, fr) ==
    LET leftResult == evaluateNode(node.left, fr) IN
    IF ~leftResult.value THEN Evaluated(FALSE, leftResult.warnings)
    ELSE LET r == evaluateNode(node.right, fr)
         IN Evaluated(r.value, leftResult.warnings \o r.warnings)

\* case 'or'
orCase(node, fr) ==
    LET leftResult == evaluateNode(node.left, fr) IN
    IF leftResult.value THEN Evaluated(TRUE, leftResult.warnings)
    ELSE LET r == evaluateNode(node.right, fr)
         IN Evaluated(r.value, leftResult.warnings \o r.warnings)

evaluateNode(node, fr) ==
    IF node.type = "filter" THEN filterCase(node, fr)
    ELSE IF node.type = "not" THEN notCase(node, fr)
    ELSE IF node.type = "and" THEN andCase(node, fr)
    ELSE IF node.type = "or" THEN orCase(node, fr)
    ELSE Evaluated(FALSE, <<>>)   \* default: unknown node type

\* evaluate returning false for a null AST
evaluateNullFalse(ast, fr) ==
    IF ast = NULL THEN Evaluated(FALSE, <<>>) ELSE evaluateNode(ast, fr)

evaluate(ast, fr) ==
    IF ast = NULL THEN Evaluated(TRUE, <<>>) ELSE evaluateNode(ast, fr)

\* Array.prototype.join
RECURSIVE join(_, _)
join(strs, sep) ==
    IF Len(strs) = 0 THEN <<>>
    ELSE IF Len(strs) = 1 THEN strs[1]
    ELSE strs[1] \o sep \o join(Tail(strs), sep)

\* generateDefaultExpression joining the labels with the OR operator
generateDefaultExpressionOr(ls) ==
    IF Len(ls) = 0 THEN <<>>
    ELSE IF Len(ls) = 1 THEN ls[1]
    ELSE join(ls, <<" ", "|", " ">>)

generateDefaultExpression(ls) ==
    IF Len(ls) = 0 THEN <<>>
    ELSE IF Len(ls) = 1 THEN ls[1]
    ELSE join(ls, <<" ", "&", " ">>)


(***************************************************************************)
(* Inputs                                                                  *)
(***************************************************************************)
\* Bounds of the model.
MaxPieces == 3
MaxLabels == 3

\* The pieces expressions are put together from: labels, both forms of the
\* operators, parentheses, whitespace, a digit, and a character no token
\* starts with.
Pieces ==
    { <<"a">>, <<"b">>, <<"&">>, <<"|">>, <<"!">>, <<"(">>, <<")">>, <<" ">>,
      <<"A","N","D">>, <<"o","r">>, <<"N","o","t">>, <<"1">>, <<"#">> }

RECURSIVE Concats(_)
Concats(n) ==
    IF n = 0 THEN {<<>>}
    ELSE LET prev == Concats(n - 1)
         IN prev \cup {s \o p : s \in prev, p \in Pieces}

\* "a & b | !c" and "(a|b)&c"
ExprAndOrNot == <<"a"," ","&"," ","b"," ","|"," ","!","c">>
ExprGrouped  == <<"(","a","|","b",")","&","c">>

ConcreteInputs ==
    { ExprAndOrNot, ExprGrouped,
      <<"a","|","b","&","c">>,
      <<"!","a","&","b">>,
      <<"!","(","a","&","b",")">>,
      <<"!","!","a">>,
      <<"a","|","b","|","c">>,
      <<"a","&","b","&","c">>,
      <<"(","(","a",")",")">>,
      <<"(","a","&","b">>,
      <<"a","&","b",")">>,
      <<"a"," ","b","&","c">>,
      <<"a","_","1","-","x"," ","&"," ","B","2">>,
      <<"a"," ","a","n","d"," ","b"," ","O","R"," ","n","o","t"," ","c">>,
      <<"a","\t","&","\n","b">>,
      <<" ","\t","\n"," ">>,
      <<"a","n","d","y"," ","|"," ","n","o","t","e">>,
      <<"a"," ","&"," ","b",".","c">> }

Inputs == Concats(MaxPieces) \cup ConcreteInputs

\* The labels filter results and valid-label lists are taken from.
Labels == { <<"a">>, <<"b">>, <<"c">> }

\* Every Map<string, boolean> over some of the labels.
FilterResultMaps == UNION { [D -> BOOLEAN] : D \in SUBSET Labels }

\* The valid-label lists: every list of distinct labels.
ValidLabelLists ==
    { v \in UNION { [1..n -> Labels] : n \in 0..Cardinality(Labels) } :
        \A i, j \in DOMAIN v : i # j => v[i] # v[j] }

\* The names handed to generateDefaultExpression: letters, custom names, a
\* name that reads as a keyword and a name that is no LABEL token.
LabelNames ==
    { <<"a">>, <<"b">>, <<"c">>, <<"x","-","1">>, <<"o","r">>, <<"m","y"," ","f">> }

LabelLists == UNION { [1..n -> LabelNames] : n \in 0..MaxLabels }

(***************************************************************************)
(* State                                                                   *)
(***************************************************************************)
NoResult == [thrown |-> FALSE, ast |-> NULL, errors |-> <<>>]
NoEval   == Evaluated(FALSE, <<>>)
NoMap    == [l \in {} |-> FALSE]

InitParser ==
    /\ tokens = <<>>
    /\ current = 0
    /\ errors = <<>>
    /\ result = NoResult

InitRest ==
    /\ filterResults = NoMap
    /\ evalResult = NoEval
    /\ validLabels = <<>>
    /\ validation = <<>>

InitWild ==
    /\ path = <<>>
    /\ pattern = <<>>
    /\ matchResult = FALSE

InitTag ==
    /\ tag = <<>>
    /\ hierarchy = <<>>
    /\ normalizedTag = <<>>

InitPlugin ==
    /\ treeComponent = FALSE
    /\ saveStateTimer = 0
    /\ saves = 0
    /\ data = <<>>
    /\ settings = <<>>
    /\ savedData = <<>>

InitVault ==
    /\ vault = <<>>
    /\ tagToFiles = <<>>
    /\ propertyToValueToFiles = <<>>
    /\ fileToTags = <<>>
    /\ fileToProperties = <<>>
    /\ tagHierarchyCache = <<>>
    /\ updateQueue = <<>>
    /\ updateTimer = 0
    /\ timers = <<>>
    /\ filesToUpdate = <<>>
    /\ indexUpdated = FALSE
    /\ tree = <<>>
    /\ treeCache = <<>>
    /\ lastIndexTime = 0
    /\ history = <<>>
    /\ InitPlugin

\* a fresh parser about to be handed an expression
InitExpr ==
    /\ pc = "init"
    /\ expression \in Inputs
    /\ labels = <<>>
    /\ InitParser /\ InitRest /\ InitWild /\ InitTag /\ InitVault

\* a list of labels about to be handed to generateDefaultExpression
InitDefault ==
    /\ pc = "labels"
    /\ expression = <<>>
    /\ labels \in LabelLists
    /\ InitParser /\ InitRest /\ InitWild /\ InitTag /\ InitVault

(***************************************************************************)
(* Operations                                                              *)
(***************************************************************************)
\* result = parser.parse(expression)
Parse ==
    /\ pc \in {"init", "generated"}
    /\ LET r == parse(expression, tokens) IN
         /\ result' = [thrown |-> r.thrown, ast |-> r.ast, errors |-> r.errors]
         /\ tokens' = r.tokens
         /\ current' = r.current
         /\ errors' = r.errors
    /\ pc' = "parsed"
    /\ UNCHANGED <<expression, filterResults, evalResult, validLabels,
                   validation, labels, wildVars, tagVars, vaultVars>>

\* evaluator.evaluate(result.ast, fr)
Evaluate(fr) ==
    /\ pc = "parsed"
    /\ ~result.thrown
    /\ filterResults' = fr
    /\ evalResult' = evaluate(result.ast, fr)
    /\ pc' = "evaluated"
    /\ UNCHANGED <<expression, tokens, current, errors, result, validLabels,
                   validation, labels, wildVars, tagVars, vaultVars>>

\* validateFilterLabels(result.ast, valid)
Validate(valid) ==
    /\ pc = "parsed"
    /\ ~result.thrown
    /\ validLabels' = valid
    /\ validation' = validateFilterLabels(result.ast, valid)
    /\ pc' = "validated"
    /\ UNCHANGED <<expression, tokens, current, errors, result, filterResults,
                   evalResult, labels, wildVars, tagVars, vaultVars>>

\* expression = ExpressionEvaluator.generateDefaultExpression(labels)
Generate ==
    /\ pc = "labels"
    /\ expression' = generateDefaultExpression(labels)
    /\ pc' = "generated"
    /\ UNCHANGED <<tokens, current, errors, result, filterResults, evalResult,
                   validLabels, validation, labels, wildVars, tagVars, vaultVars>>

NextExpr ==
    \/ Parse
    \/ \E fr \in FilterResultMaps : Evaluate(fr)
    \/ \E valid \in ValidLabelLists : Validate(valid)

SpecExpr == InitExpr /\ [][NextExpr]_vars

NextDefault ==
    \/ Generate
    \/ Parse
    \/ \E fr \in FilterResultMaps : Evaluate(fr)

SpecDefault == InitDefault /\ [][NextDefault]_vars

(***************************************************************************)
(* Properties of the parser and the evaluator                              *)
(***************************************************************************)
Parsed == pc \in {"parsed", "evaluated", "validated"}

A == Filter(<<"a">>)
B == Filter(<<"b">>)
C == Filter(<<"c">>)

\* C1: parse applies the precedence NOT > AND > OR and honours parentheses:
\* "a & b | !c" parses to OR(AND(a,b), NOT(c)) and "(a|b)&c" to
\* AND(OR(a,b), c), both without errors; likewise "a|b&c" is
\* OR(a, AND(b,c)), "!a&b" is AND(NOT(a), b) and "!(a&b)" is NOT(AND(a,b)).
C1_Precedence ==
    pc = "parsed" =>
      /\ expression = ExprAndOrNot =>
           result.ast = Or(And(A, B), Not(C)) /\ result.errors = <<>>
      /\ expression = ExprGrouped =>
           result.ast = And(Or(A, B), C) /\ result.errors = <<>>
      /\ expression = <<"a","|","b","&","c">> =>
           result.ast = Or(A, And(B, C)) /\ result.errors = <<>>
      /\ expression = <<"!","a","&","b">> =>
           result.ast = And(Not(A), B) /\ result.errors = <<>>
      /\ expression = <<"!","(","a","&","b",")">> =>
           result.ast = Not(And(A, B)) /\ result.errors = <<>>

C1_Witness ==
    /\ pc = "parsed"
    /\ expression = ExprAndOrNot
    /\ result.ast = Or(And(A, B), Not(C))
    /\ result.errors = <<>>

\* A character no token can start with: one outside the alphabet of the
\* language, or a digit, underscore or hyphen that does not continue a word.
HasUnrecognisedChar(e) ==
    \E i \in DOMAIN e :
       \/ ~(IsLabelChar(e[i]) \/ IsWhitespace(e[i])
              \/ e[i] \in {"(", ")", "&", "|", "!"})
       \/ /\ IsLabelChar(e[i]) /\ ~IsLetter(e[i])
          /\ (i = 1 \/ ~IsLabelChar(e[i - 1]))

\* The nesting depth after the first n characters of e.
RECURSIVE Depth(_, _)
Depth(e, n) ==
    IF n = 0 THEN 0
    ELSE Depth(e, n - 1)
           + (IF e[n] = "(" THEN 1 ELSE IF e[n] = ")" THEN -1 ELSE 0)

\* A ')' without an open '(' before it, or a '(' never closed.
HasUnmatchedParen(e) ==
    \/ \E n \in DOMAIN e : Depth(e, n) < 0
    \/ Depth(e, Len(e)) # 0

\* A token that cannot follow the one before it: an operand or '(' or NOT
\* must come first and after an operator or '('; an operator, ')' or the
\* end must come after an operand or ')'.
HasUnexpectedToken(toks) ==
    \E i \in DOMAIN toks :
       LET prev == IF i = 1 THEN "START" ELSE toks[i - 1].type
           type == toks[i].type
       IN IF prev \in {"LABEL", "RPAREN"}
          THEN type \notin {"AND", "OR", "RPAREN", "EOF"}
          ELSE type \notin {"LABEL", "NOT", "LPAREN"}

Malformed ==
    \/ HasUnrecognisedChar(expression)
    \/ HasUnmatchedParen(expression)
    \/ HasUnexpectedToken(tokens)

\* C2: parse returns normally for every input, and an input with an
\* unrecognised character, an unmatched parenthesis or an unexpected
\* (possibly trailing) token yields a null AST and at least one error.
C2_SyntaxErrorsReported ==
    pc = "parsed" =>
      /\ ~result.thrown
      /\ Malformed => result.ast = NULL /\ Len(result.errors) >= 1

C2_Witness ==
    /\ pc = "parsed"
    /\ expression = <<"a", " ", "b">>
    /\ HasUnexpectedToken(tokens)
    /\ result.ast = NULL
    /\ Len(result.errors) = 1

\* C3: an empty or whitespace-only expression parses to a null AST without
\* errors, and evaluating that AST gives true whatever the filter results.
C3_BlankIsNoFilter ==
    (Parsed /\ \A i \in DOMAIN expression : IsWhitespace(expression[i])) =>
      /\ result.ast = NULL
      /\ result.errors = <<>>
      /\ pc = "evaluated" => evalResult.value = TRUE

C3_Witness ==
    /\ pc = "evaluated"
    /\ expression = <<" ", "\t", "\n", " ">>
    /\ filterResults = [l \in Labels |-> FALSE]
    /\ evalResult.value = TRUE

\* The ordinary boolean value of a node, absent labels read as false.
RECURSIVE BoolValue(_, _)
BoolValue(node, fr) ==
    CASE node.type = "filter" -> node.label \in DOMAIN fr /\ fr[node.label]
      [] node.type = "not"    -> ~BoolValue(node.operand, fr)
      [] node.type = "and"    -> BoolValue(node.left, fr) /\ BoolValue(node.right, fr)
      [] node.type = "or"     -> BoolValue(node.left, fr) \/ BoolValue(node.right, fr)

\* C4: evaluate returns the boolean value of the AST with every absent
\* label read as false: AND(true, missing) and OR(false, missing) are false
\* and NOT(missing) is true.
C4_MissingIsFalse ==
    (pc = "evaluated" /\ result.ast # NULL) =>
      /\ evalResult.value = BoolValue(result.ast, filterResults)
      /\ (result.ast = And(A, B) /\ filterResults = (<<"a">> :> TRUE)) =>
           evalResult.value = FALSE
      /\ (result.ast = Or(A, B) /\ filterResults = (<<"a">> :> FALSE)) =>
           evalResult.value = FALSE
      /\ (result.ast = Not(A) /\ filterResults = NoMap) =>
           evalResult.value = TRUE

C4_Witness ==
    /\ pc = "evaluated"
    /\ result.ast = Or(A, B)
    /\ filterResults = (<<"a">> :> FALSE)
    /\ evalResult.value = FALSE
    /\ evalResult.warnings = << <<"b">> >>

\* The map without the entry of label l.
Remove(fr, l) == [k \in DOMAIN fr \ {l} |-> fr[k]]

\* Label l occurs in node under an odd number of NOTs (negated tells
\* whether node itself stands under an odd number).
RECURSIVE OccursNegated(_, _, _)
OccursNegated(node, l, negated) ==
    CASE node.type = "filter" -> negated /\ node.label = l
      [] node.type = "not"    -> OccursNegated(node.operand, l, ~negated)
      [] OTHER -> \/ OccursNegated(node.left, l, negated)
                  \/ OccursNegated(node.right, l, negated)

\* C5 as stated: removing a label from the filter results never turns the
\* result of evaluate from false into true.
C5_RemovalNeverWidens ==
    pc = "evaluated" =>
      \A l \in DOMAIN filterResults :
         ~evalResult.value =>
            ~evaluate(result.ast, Remove(filterResults, l)).value

\* C5 (amended): removing a label that occurs under no odd number of NOTs
\* never turns the result of evaluate from false into true.
C5_RemovalNarrowsUnnegated ==
    (pc = "evaluated" /\ result.ast # NULL) =>
      \A l \in DOMAIN filterResults :
         (~OccursNegated(result.ast, l, FALSE) /\ ~evalResult.value) =>
            ~evaluate(result.ast, Remove(filterResults, l)).value

C5_Witness ==
    /\ pc = "evaluated"
    /\ result.ast = And(A, B)
    /\ filterResults = (<<"a">> :> TRUE @@ <<"b">> :> FALSE)
    /\ ~evalResult.value
    /\ ~evaluate(result.ast, Remove(filterResults, <<"a">>)).value

RECURSIVE SubNodes(_)
SubNodes(node) ==
    {node} \cup
    CASE node.type = "filter" -> {}
      [] node.type = "not"    -> SubNodes(node.operand)
      [] OTHER -> SubNodes(node.left) \cup SubNodes(node.right)

RECURSIVE LabelsOf(_)
LabelsOf(node) ==
    CASE node.type = "filter" -> {node.label}
      [] node.type = "not"    -> LabelsOf(node.operand)
      [] OTHER -> LabelsOf(node.left) \cup LabelsOf(node.right)

\* The left operand of node decides its value.
ShortCircuits(node, fr) ==
    \/ node.type = "and" /\ ~BoolValue(node.left, fr)
    \/ node.type = "or" /\ BoolValue(node.left, fr)

\* The warnings logged while node was evaluated.
WarningsOf(node) ==
    IF node = result.ast THEN Range(evalResult.warnings)
    ELSE Range(evaluateNode(node, filterResults).warnings)

\* C6: when the left operand of an AND is false, or of an OR is true, the
\* right operand is not evaluated: no warning is logged for a label that
\* occurs only in the right operand.
C6_ShortCircuit ==
    (pc = "evaluated" /\ result.ast # NULL) =>
      \A n \in SubNodes(result.ast) :
         ShortCircuits(n, filterResults) =>
            \A l \in LabelsOf(n.right) \ LabelsOf(n.left) :
               l \notin WarningsOf(n)

C6_Witness ==
    /\ pc = "evaluated"
    /\ result.ast = And(A, B)
    /\ filterResults = (<<"a">> :> FALSE)
    /\ evalResult = Evaluated(FALSE, <<>>)

\* The spellings the keyword forms are written in.
KeywordSpellings ==
    { [and |-> <<"A","N","D">>, or |-> <<"O","R">>, not |-> <<"N","O","T">>],
      [and |-> <<"a","n","d">>, or |-> <<"o","r">>, not |-> <<"n","o","t">>],
      [and |-> <<"a","N","d">>, or |-> <<"O","r">>, not |-> <<"n","o","T">>] }

\* e with every symbolic operator replaced by its keyword, set off by spaces.
RECURSIVE SymbolsToKeywords(_, _)
SymbolsToKeywords(e, sp) ==
    IF e = <<>> THEN <<>>
    ELSE (CASE Head(e) = "&" -> <<" ">> \o sp.and \o <<" ">>
            [] Head(e) = "|" -> <<" ">> \o sp.or \o <<" ">>
            [] Head(e) = "!" -> <<" ">> \o sp.not \o <<" ">>
            [] OTHER -> <<Head(e)>>)
         \o SymbolsToKeywords(Tail(e), sp)

\* w spells the keyword kw (given in lower case) in some letter case.
Spells(w, kw) ==
    /\ Len(w) = Len(kw)
    /\ \A i \in DOMAIN kw :
          \E j \in DOMAIN LowerCase :
             kw[i] = LowerCase[j] /\ w[i] \in {LowerCase[j], UpperCase[j]}

\* e from position pos on, with every keyword replaced by its symbol.
RECURSIVE KeywordsToSymbols(_, _)
KeywordsToSymbols(e, pos) ==
    IF pos >= Len(e) THEN <<>>
    ELSE IF IsLabelChar(e[pos + 1])
    THEN LET w == ReadWord(e, pos, <<>>)
             out == CASE Spells(w.value, <<"a","n","d">>) -> <<"&">>
                      [] Spells(w.value, <<"o","r">>) -> <<"|">>
                      [] Spells(w.value, <<"n","o","t">>) -> <<"!">>
                      [] OTHER -> w.value
         IN out \o KeywordsToSymbols(e, w.position)
    ELSE <<e[pos + 1]>> \o KeywordsToSymbols(e, pos + 1)

\* C7: replacing the operators of an expression by their other form (the
\* symbols by keywords in any letter case set off by whitespace, the
\* keywords by symbols) leaves the AST returned by parse unchanged.
C7_OperatorFormsAgree ==
    pc = "parsed" =>
      /\ \A sp \in KeywordSpellings :
            parse(SymbolsToKeywords(expression, sp), <<>>).ast = result.ast
      /\ parse(KeywordsToSymbols(expression, 0), <<>>).ast = result.ast

C7_Witness ==
    /\ pc = "parsed"
    /\ expression =
         <<"a"," ","a","n","d"," ","b"," ","O","R"," ","n","o","t"," ","c">>
    /\ KeywordsToSymbols(expression, 0) =
         <<"a"," ","&"," ","b"," ","|"," ","!"," ","c">>
    /\ result.ast = Or(And(A, B), Not(C))

\* The labels of the predicate references of an AST, left to right.
RECURSIVE References(_)
References(node) ==
    CASE node.type = "null"   -> <<>>
      [] node.type = "filter" -> <<node.label>>
      [] node.type = "not"    -> References(node.operand)
      [] OTHER -> References(node.left) \o References(node.right)

UnknownReferences(ast, valid) ==
    LET Unknown(l) == l \notin Range(valid)
    IN SelectSeq(References(ast), Unknown)

\* C8: whether parse accepts an expression is decided by its syntax alone,
\* also when it names labels that are not configured; validateFilterLabels
\* returns one error for each predicate reference whose label is not among
\* the valid labels (none when all are valid or the AST is null).
C8_LabelsCheckedSeparately ==
    /\ (pc = "parsed" /\ ~TrimIsEmpty(expression)) =>
          (result.ast # NULL /\ result.errors = <<>>) <=> ~Malformed
    /\ pc = "validated" =>
          LET unknown == UnknownReferences(result.ast, validLabels)
          IN validation =
               [i \in 1..Len(unknown) |-> UnknownLabel(unknown[i], validLabels)]

C8_Witness ==
    /\ pc = "validated"
    /\ result.ast = And(A, A)
    /\ result.errors = <<>>
    /\ validLabels = << <<"b">> >>
    /\ Len(validation) = 2

\* Every one of the labels is true in the filter results.
AllTrue(ls, fr) ==
    \A i \in DOMAIN ls : ls[i] \in DOMAIN fr /\ fr[ls[i]]

\* What C9 says of generateDefaultExpression for no label and one label.
DefaultOfFewLabels ==
    /\ Len(labels) = 0 => expression = <<>>
    /\ Len(labels) = 1 => expression = labels[1]

\* What C9 says of generateDefaultExpression for several labels.
DefaultOfSeveralLabels ==
    /\ Parsed => result.ast # NULL /\ result.errors = <<>>
    /\ pc = "evaluated" => evalResult.value = AllTrue(labels, filterResults)

\* C9 as stated: generateDefaultExpression gives "" for no label, the label
\* for one label, and for several labels an expression parse accepts and
\* that is true exactly when every label is true.
C9_DefaultIsConjunction ==
    pc # "labels" =>
      /\ DefaultOfFewLabels
      /\ Len(labels) > 1 => DefaultOfSeveralLabels

\* l is a LABEL token of the expression language: a letter followed by
\* letters, digits, underscores and hyphens, and no keyword.
IsLabelToken(l) ==
    /\ Len(l) > 0
    /\ IsLetter(l[1])
    /\ \A i \in DOMAIN l : IsLabelChar(l[i])
    /\ ~Spells(l, <<"a","n","d">>)
    /\ ~Spells(l, <<"o","r">>)
    /\ ~Spells(l, <<"n","o","t">>)

\* C9 (amended): "" for no label, the label for one label, and for several
\* labels that are all LABEL tokens of the expression language an
\* expression parse accepts and that is true exactly when every label is.
C9_DefaultIsConjunctionOfLabelTokens ==
    pc # "labels" =>
      /\ DefaultOfFewLabels
      /\ (Len(labels) > 1 /\ \A i \in DOMAIN labels : IsLabelToken(labels[i]))
            => DefaultOfSeveralLabels

C9_Witness ==
    /\ pc = "evaluated"
    /\ labels = << <<"a">>, <<"b">>, <<"c">> >>
    /\ expression = <<"a"," ","&"," ","b"," ","&"," ","c">>
    /\ result.ast = And(And(A, B), C)
    /\ filterResults = [l \in Labels |-> TRUE]
    /\ evalResult.value = TRUE

(***************************************************************************)
(* matchWildcard                                                           *)
(***************************************************************************)
\* s holds sub at position i
HasAt(s, i, sub) ==
    /\ i + Len(sub) <= Len(s)
    /\ \A k \in DOMAIN sub : s[i + k] = sub[k]

\* String.prototype.replace with a global pattern matching the literal
\* text sub: s from position i on, each occurrence replaced by rep
RECURSIVE replace(_, _, _, _)
replace(s, i, sub, rep) ==
    IF i >= Len(s) THEN <<>>
    ELSE IF HasAt(s, i, sub)
    THEN rep \o replace(s, i + Len(sub), sub, rep)
    ELSE <<s[i + 1]>> \o replace(s, i + 1, sub, rep)

DOUBLESTAR ==
    <<"<","<","<","D","O","U","B","L","E","S","T","A","R",">",">",">">>

\* the wildcard pattern converted with '*' rewritten to '.*' after the
\* dots are escaped
regexPatternStarAny(pat) ==
    LET s1 == replace(pat, 0, <<"?">>, <<".">>)
        s2 == replace(s1, 0, <<".">>, <<"\\", ".">>)
    IN replace(s2, 0, <<"*">>, <<".", "*">>)

\* the wildcard pattern converted to the source of a regular expression
regexPattern(pat) ==
    LET s1 == replace(pat, 0, <<"*", "*">>, DOUBLESTAR)
        s2 == replace(s1, 0, <<"*">>, <<"[", "^", "/", "]", "*">>)
        s3 == replace(s2, 0, DOUBLESTAR, <<".", "*">>)
        s4 == replace(s3, 0, <<"?">>, <<".">>)
    IN replace(s4, 0, <<".">>, <<"\\", ".">>)

\* The atom of the regular expression re at position i, and where it ends:
\* an escaped character, the class [^/], the dot, or a plain character.
atomAt(re, i) ==
    IF re[i + 1] = "\\" /\ i + 1 < Len(re)
    THEN [kind |-> "char", char |-> re[i + 2], next |-> i + 2]
    ELSE IF HasAt(re, i, <<"[", "^", "/", "]">>)
    THEN [kind |-> "notslash", char |-> "/", next |-> i + 4]
    ELSE IF re[i + 1] = "."
    THEN [kind |-> "any", char |-> ".", next |-> i + 1]
    ELSE [kind |-> "char", char |-> re[i + 1], next |-> i + 1]

\* new RegExp: the atoms of re from position i on, each with its '*'
RECURSIVE compile(_, _)
compile(re, i) ==
    IF i >= Len(re) THEN <<>>
    ELSE LET a == atomAt(re, i)
             starred == a.next < Len(re) /\ re[a.next + 1] = "*"
         IN <<[kind |-> a.kind, char |-> a.char, star |-> starred]>>
            \o compile(re, IF starred THEN a.next + 1 ELSE a.next)

accepts(atom, c) ==
    CASE atom.kind = "char"     -> c = atom.char
      [] atom.kind = "notslash" -> c # "/"
      [] atom.kind = "any"      -> c \notin {"\n", "\r"}

\* The atoms from the k-th on match s from position i up to its end.
RECURSIVE matchFrom(_, _, _, _)
matchFrom(atoms, k, s, i) ==
    IF k > Len(atoms) THEN i = Len(s)
    ELSE IF atoms[k].star
    THEN \/ matchFrom(atoms, k + 1, s, i)
         \/ /\ i < Len(s)
            /\ accepts(atoms[k], s[i + 1])
            /\ matchFrom(atoms, k, s, i + 1)
    ELSE /\ i < Len(s)
         /\ accepts(atoms[k], s[i + 1])
         /\ matchFrom(atoms, k + 1, s, i + 1)

\* new RegExp(`^${regexPattern}$`).test(path)
matchWildcard(p, pat) == matchFrom(compile(regexPattern(pat), 0), 1, p, 0)

\* Bounds of the paths and patterns.
MaxPathLen == 3
MaxPatternLen == 3

PathChars == {"a", "/", "."}
PatternChars == PathChars \cup {"*", "?"}

Strings(chars, n) == UNION { [1..k -> chars] : k \in 0..n }

\* "project/alpha/note.md", "project/alpha/x/note.md", "project/*/note.md"
PathAlphaNote ==
    <<"p","r","o","j","e","c","t","/","a","l","p","h","a","/",
      "n","o","t","e",".","m","d">>
PathAlphaXNote ==
    <<"p","r","o","j","e","c","t","/","a","l","p","h","a","/","x","/",
      "n","o","t","e",".","m","d">>
PatternStarNote ==
    <<"p","r","o","j","e","c","t","/","*","/","n","o","t","e",".","m","d">>

\* "project/**/note.md"
PatternDoubleStarNote ==
    <<"p","r","o","j","e","c","t","/","*","*","/","n","o","t","e",".","m","d">>

\* "a?b", and the paths "a" + c + "b" for one character c, "ab" and "axyb"
PatternAnyB == <<"a", "?", "b">>
OneBetween == { <<"a", c, "b">> : c \in {"x", ".", "/", "a"} }
NoneBetween == <<"a", "b">>
TwoBetween == <<"a", "x", "y", "b">>

Paths ==
    Strings(PathChars, MaxPathLen) \cup
    { PathAlphaNote, PathAlphaXNote,
      <<"p","r","o","j","e","c","t","/","/","n","o","t","e",".","m","d">>,
      <<"p","r","o","j","e","c","t","/","a","/","n","o","t","e","x","m","d">> }
    \cup OneBetween \cup { NoneBetween, TwoBetween }

Patterns ==
    Strings(PatternChars, MaxPatternLen) \cup
    { PatternStarNote, PatternDoubleStarNote, PatternAnyB }

InitWildcard ==
    /\ pc = "path"
    /\ path \in Paths
    /\ pattern \in Patterns
    /\ matchResult = FALSE
    /\ expression = <<>>
    /\ labels = <<>>
    /\ InitParser /\ InitRest /\ InitTag /\ InitVault

\* matchResult = matchWildcard(path, pattern)
Match ==
    /\ pc = "path"
    /\ matchResult' = matchWildcard(path, pattern)
    /\ pc' = "matched"
    /\ UNCHANGED <<exprVars, path, pattern, tagVars, vaultVars>>

NextWildcard == Match

SpecWildcard == InitWildcard /\ [][NextWildcard]_vars

\* The wildcard pattern pat from position j on matches p from position i
\* up to its end, '*' standing for a run without '/', '**' for any run and
\* '?' for one character.
RECURSIVE GlobMatch(_, _, _, _)
GlobMatch(p, i, pat, j) ==
    IF j >= Len(pat) THEN i = Len(p)
    ELSE IF HasAt(pat, j, <<"*", "*">>)
    THEN \E k \in i..Len(p) : GlobMatch(p, k, pat, j + 2)
    ELSE IF pat[j + 1] = "*"
    THEN \E k \in i..Len(p) :
            /\ \A m \in (i + 1)..k : p[m] # "/"
            /\ GlobMatch(p, k, pat, j + 1)
    ELSE IF pat[j + 1] = "?"
    THEN i < Len(p) /\ GlobMatch(p, i + 1, pat, j + 1)
    ELSE i < Len(p) /\ p[i + 1] = pat[j + 1] /\ GlobMatch(p, i + 1, pat, j + 1)

\* The pattern has single '*' wildcards only.
OnlySingleStars(pat) ==
    /\ "?" \notin Range(pat)
    /\ \A j \in 0..Len(pat) : ~HasAt(pat, j, <<"*", "*">>)

\* C10: a single '*' matches any run of characters without '/', and the
\* whole path must match: "project/alpha/note.md" matches
\* "project/*/note.md" and "project/alpha/x/note.md" does not.
C10_SingleStar ==
    pc = "matched" =>
      /\ OnlySingleStars(pattern) =>
            matchResult = GlobMatch(path, 0, pattern, 0)
      /\ (path = PathAlphaNote /\ pattern = PatternStarNote) => matchResult
      /\ (path = PathAlphaXNote /\ pattern = PatternStarNote) => ~matchResult

C10_Witness ==
    /\ pc = "matched"
    /\ path = PathAlphaNote
    /\ pattern = PatternStarNote
    /\ matchResult

\* C11: '**' matches any run of characters, '/' included:
\* "project/alpha/x/note.md" matches "project/**/note.md".
C11_DoubleStar ==
    (pc = "matched" /\ path = PathAlphaXNote
        /\ pattern = PatternDoubleStarNote) => matchResult

\* matchWildcard has answered for the path and pattern of C11.
C11_Reached ==
    /\ pc = "matched"
    /\ path = PathAlphaXNote
    /\ pattern = PatternDoubleStarNote

\* C12: '?' matches exactly one character, whatever it is: "a" + c + "b"
\* matches "a?b" for every character c, and "ab" and "axyb" do not.
C12_QuestionMark ==
    (pc = "matched" /\ pattern = PatternAnyB) =>
      /\ path \in OneBetween => matchResult
      /\ path \in {NoneBetween, TwoBetween} => ~matchResult

\* matchWildcard has answered for "axb" and "a?b".
C12_Reached ==
    /\ pc = "matched"
    /\ path = <<"a", "x", "b">>
    /\ pattern = PatternAnyB

(***************************************************************************)
(* VaultIndexer: tags                                                      *)
(***************************************************************************)
\* tag.startsWith('#') ? tag.slice(1) : tag
normalizeTag(t) ==
    IF Len(t) > 0 /\ t[1] = "#" THEN Tail(t) ELSE t

\* String.prototype.split('/') of s from position i on, cur being the
\* segment read so far
RECURSIVE splitFrom(_, _, _)
splitFrom(s, i, cur) ==
    IF i >= Len(s) THEN <<cur>>
    ELSE IF s[i + 1] = "/"
    THEN <<cur>> \o splitFrom(s, i + 1, <<>>)
    ELSE splitFrom(s, i + 1, Append(cur, s[i + 1]))

split(s) == splitFrom(s, 0, <<>>)

\* Array.prototype.slice(0, n)
slice(a, n) == SubSeq(a, 1, IF n < Len(a) THEN n ELSE Len(a))

\* the loop of parseTagHierarchy from index i on
RECURSIVE hierarchyFrom(_, _, _)
hierarchyFrom(segments, i, hier) ==
    IF i < Len(segments)
    THEN hierarchyFrom(segments, i + 1,
                       Append(hier, join(slice(segments, i + 1), <<"/">>)))
    ELSE hier

\* parseTagHierarchy pushing segments.slice(0, i) instead of
\* segments.slice(0, i + 1)
parseTagHierarchyShort(t) ==
    LET segments == split(normalizeTag(t)) IN
    [i \in 1..Len(segments) |-> join(slice(segments, i - 1), <<"/">>)]

\* const segments = normalized.split('/') is computed once
parseTagHierarchy(t) ==
    LET normalized == IF Len(t) > 0 /\ t[1] = "#" THEN Tail(t) ELSE t IN
    CHOOSE parsed \in { hierarchyFrom(segments, 0, <<>>) :
                          segments \in {split(normalized)} } : TRUE

\* Bound of the tags.
MaxTagLen == 3

TagChars == {"a", "b", "/", "#"}

\* "project/alpha/feature"
TagProjectAlphaFeature ==
    <<"p","r","o","j","e","c","t","/","a","l","p","h","a","/",
      "f","e","a","t","u","r","e">>

RawTags ==
    Strings(TagChars, MaxTagLen) \cup
    { TagProjectAlphaFeature, <<"#">> \o TagProjectAlphaFeature,
      <<"a", "/", "b", "/", "c">>,
      <<"#", "P", "r", "o", "j", "e", "c", "t">>, <<"A", "/", "b">> }

\* a tag of a document's metadata about to be indexed
InitTags ==
    /\ pc = "tag"
    /\ tag \in RawTags
    /\ hierarchy = <<>>
    /\ normalizedTag = <<>>
    /\ expression = <<>>
    /\ labels = <<>>
    /\ InitParser /\ InitRest /\ InitWild /\ InitVault

\* hierarchy = this.parseTagHierarchy(this.normalizeTag(tag))
ParseTagHierarchy ==
    /\ pc = "tag"
    /\ hierarchy' = parseTagHierarchy(normalizeTag(tag))
    /\ pc' = "hierarchy"
    /\ UNCHANGED <<exprVars, wildVars, tag, normalizedTag, vaultVars>>

\* tag.toLowerCase().replace(/^#/, "")
utilsNormalizeTag(t) ==
    LET lower == toLowerCase(t) IN
    IF Len(lower) > 0 /\ lower[1] = "#" THEN Tail(lower) ELSE lower

\* the indexer's normalizeTag(tag)
NormalizeTag ==
    /\ pc = "tag"
    /\ normalizedTag' = normalizeTag(tag)
    /\ pc' = "normalized"
    /\ UNCHANGED <<exprVars, wildVars, tag, hierarchy, vaultVars>>

\* the utilities' normalizeTag(tag)
UtilsNormalizeTag ==
    /\ pc = "tag"
    /\ normalizedTag' = utilsNormalizeTag(tag)
    /\ pc' = "normalized-utils"
    /\ UNCHANGED <<exprVars, wildVars, tag, hierarchy, vaultVars>>

NextTags == ParseTagHierarchy \/ NormalizeTag \/ UtilsNormalizeTag

SpecTags == InitTags /\ [][NextTags]_vars

\* The number of '/' among the first n characters of t.
RECURSIVE Slashes(_, _)
Slashes(t, n) ==
    IF n = 0 THEN 0
    ELSE Slashes(t, n - 1) + (IF t[n] = "/" THEN 1 ELSE 0)

\* chain lists the prefixes of the tag t that end where a segment ends,
\* shortest first and each once, up to t itself.
IsAncestorChain(t, chain) ==
    /\ Len(chain) = Slashes(t, Len(t)) + 1
    /\ \A i \in DOMAIN chain :
          /\ Len(chain[i]) <= Len(t)
          /\ chain[i] = SubSeq(t, 1, Len(chain[i]))
          /\ Len(chain[i]) = Len(t) \/ t[Len(chain[i]) + 1] = "/"
          /\ Slashes(t, Len(chain[i])) = i - 1
    /\ \A i, j \in DOMAIN chain : i # j => chain[i] # chain[j]
    /\ chain[Len(chain)] = t

\* The string has no leading marker.
Unmarked(t) == Len(t) = 0 \/ t[1] # "#"

\* C13: the ancestor chain computed for a tag T (a normalized string, with
\* no leading marker) lists the prefixes of T from root to leaf, each once,
\* as many as T has '/'-separated segments, and ends with T; a tag given
\* with its marker has the chain of the tag without it.
C13_AncestorChain ==
    pc = "hierarchy" =>
      /\ Unmarked(tag) => IsAncestorChain(tag, hierarchy)
      /\ (~Unmarked(tag) /\ Unmarked(Tail(tag))) =>
            IsAncestorChain(Tail(tag), hierarchy)
      /\ tag = TagProjectAlphaFeature =>
            hierarchy = << <<"p","r","o","j","e","c","t">>,
                           <<"p","r","o","j","e","c","t","/",
                             "a","l","p","h","a">>,
                           TagProjectAlphaFeature >>

C13_Witness ==
    /\ pc = "hierarchy"
    /\ tag = <<"a", "/", "b", "/", "c">>
    /\ hierarchy = << <<"a">>, <<"a", "/", "b">>, <<"a", "/", "b", "/", "c">> >>


(***************************************************************************)
(* JavaScript collections.  A Set is the sequence of its elements and a    *)
(* Map the sequence of its entries, both in insertion order.  A method     *)
(* evaluates its receiver and its arguments once, before its body.         *)
(***************************************************************************)
SetHas(s, x) == \E i \in DOMAIN s : s[i] = x

SetAdd(s, x) ==
    CHOOSE r \in { IF SetHas(sv, xv) THEN sv ELSE Append(sv, xv) :
                     sv \in {s}, xv \in {x} } : TRUE

SetDelete(s, x) == SelectSeq(s, LAMBDA y : y # x)

MapHas(m, k) == \E i \in DOMAIN m : m[i].key = k

MapGet(m, k) == m[CHOOSE i \in DOMAIN m : m[i].key = k].value

MapSet(m, k, v) ==
    CHOOSE r \in
      { IF MapHas(mv, kv)
        THEN [i \in DOMAIN mv |->
                IF mv[i].key = kv THEN [key |-> kv, value |-> vv] ELSE mv[i]]
        ELSE Append(mv, [key |-> kv, value |-> vv]) :
          mv \in {m}, kv \in {k}, vv \in {v} } : TRUE

MapDelete(m, k) == SelectSeq(m, LAMBDA en : en.key # k)

MapKeys(m) == [i \in DOMAIN m |-> m[i].key]

(***************************************************************************)
(* The host: the vault's files and the metadata cache                      *)
(***************************************************************************)
\* A frontmatter value: a string, a number (by its decimal text) or an
\* array of strings.
StringValue(text) == [type |-> "string", text |-> text, items |-> <<>>]
NumberValue(text) == [type |-> "number", text |-> text, items |-> <<>>]
ArrayValue(items) == [type |-> "array", text |-> <<>>, items |-> items]

\* String(value)
String(value) ==
    IF value.type = "array" THEN join(value.items, <<",">>) ELSE value.text

\* Array.isArray(value)
IsArray(value) == value.type = "array"

\* the value converted to a boolean
Truthy(value) ==
    CASE value.type = "array"  -> TRUE
      [] value.type = "string" -> value.text # <<>>
      [] value.type = "number" -> value.text # <<"0">>

\* What the host holds for a file: its CachedMetadata (the frontmatter's
\* entries, if it has a frontmatter, and the inline tags), no cache
\* (getFileCache returns null), or no such file.
CachedMetadata(hasFrontmatter, frontmatter, inlineTags) ==
    [state |-> "cached", hasFrontmatter |-> hasFrontmatter,
     frontmatter |-> frontmatter, tags |-> inlineTags]

NoCache ==
    [state |-> "uncached", hasFrontmatter |-> FALSE, frontmatter |-> <<>>,
     tags |-> <<>>]

NoFile ==
    [state |-> "absent", hasFrontmatter |-> FALSE, frontmatter |-> <<>>,
     tags |-> <<>>]

Entry(k, v) == [key |-> k, value |-> v]

KeyTags == <<"t","a","g","s">>
KeyPosition == <<"p","o","s","i","t","i","o","n">>
KeyStatus == <<"s","t","a","t","u","s">>


(***************************************************************************)
(* VaultIndexer: the indices                                               *)
(***************************************************************************)
\* The indices of a VaultIndexer as one value.
Indices(t2f, p2v2f, f2t, f2p, thc) ==
    [tagToFiles |-> t2f, propertyToValueToFiles |-> p2v2f,
     fileToTags |-> f2t, fileToProperties |-> f2p,
     tagHierarchyCache |-> thc]

EmptyIndices == Indices(<<>>, <<>>, <<>>, <<>>, <<>>)

\* map.get(key), or a new empty collection when the map has no such key
GetOrNew(m, k) ==
    CHOOSE r \in { IF MapHas(mv, kv) THEN MapGet(mv, kv) ELSE <<>> :
                     mv \in {m}, kv \in {k} } : TRUE

\* the tags of the frontmatter, as an array
frontmatterTags(cache) ==
    IF /\ cache.hasFrontmatter
       /\ MapHas(cache.frontmatter, KeyTags)
       /\ Truthy(MapGet(cache.frontmatter, KeyTags))
    THEN IF IsArray(MapGet(cache.frontmatter, KeyTags))
         THEN MapGet(cache.frontmatter, KeyTags).items
         ELSE <<MapGet(cache.frontmatter, KeyTags).text>>
    ELSE <<>>

\* raws.forEach(tag => tags.add(this.normalizeTag(tag))), from index i on
RECURSIVE addTags(_, _, _)
addTags(tags, raws, i) ==
    IF i > Len(raws) THEN tags
    ELSE addTags(SetAdd(tags, normalizeTag(raws[i])), raws, i + 1)

\* the Set of the file's tags: from the frontmatter, then the inline ones
collectTags(cache) ==
    addTags(addTags(<<>>, frontmatterTags(cache), 1), cache.tags, 1)

\* hierarchy.forEach(parentTag => ...), from index j on
RECURSIVE addToBuckets(_, _, _, _)
addToBuckets(t2f, file, hier, j) ==
    IF j > Len(hier) THEN t2f
    ELSE addToBuckets(
           MapSet(t2f, hier[j], SetAdd(GetOrNew(t2f, hier[j]), file)),
           file, hier, j + 1)

\* the hierarchy.forEach of indexFile adding the file to the bucket of the
\* tag itself only
addToLeafBucket(idx, file, t) ==
    [idx EXCEPT
       !.tagHierarchyCache = MapSet(@, t, parseTagHierarchy(t)),
       !.tagToFiles = MapSet(@, t, SetAdd(GetOrNew(@, t), file))]

\* the body of tags.forEach for one tag; const hierarchy is computed once
indexTag(idx, file, t) ==
    CHOOSE indexed \in
      { [idx EXCEPT
           !.tagHierarchyCache = MapSet(@, t, hier),
           !.tagToFiles = addToBuckets(@, file, hier, 1)] :
          hier \in {parseTagHierarchy(t)} } : TRUE

\* tags.forEach(tag => ...), from index i on
RECURSIVE indexTags(_, _, _, _)
indexTags(idx, file, tags, i) ==
    IF i > Len(tags) THEN idx
    ELSE indexTags(indexTag(idx, file, tags[i]), file, tags, i + 1)

\* the property index with the file added under (key, String(value))
addToPropertyIndex(p2v2f, file, k, value) ==
    MapSet(p2v2f, k,
           MapSet(GetOrNew(p2v2f, k), String(value),
                  SetAdd(GetOrNew(GetOrNew(p2v2f, k), String(value)), file)))

\* for (const [key, value] of Object.entries(cache.frontmatter)), from
\* entry i on; props is the record built so far
RECURSIVE indexProperties(_, _, _, _, _)
indexProperties(idx, file, fm, i, props) ==
    IF i > Len(fm)
    THEN [idx EXCEPT !.fileToProperties = MapSet(@, file, props)]
    ELSE IF fm[i].key = KeyTags \/ fm[i].key = KeyPosition
    THEN indexProperties(idx, file, fm, i + 1, props)
    ELSE indexProperties(
           [idx EXCEPT !.propertyToValueToFiles =
                          addToPropertyIndex(@, file, fm[i].key, fm[i].value)],
           file, fm, i + 1, MapSet(props, fm[i].key, fm[i].value))

\* indexFile with the tags indexed and the file's tags recorded; const tags
\* is computed once
indexFileTags(idx, file, cache) ==
    CHOOSE indexed \in
      { [indexTags(idx, file, tags, 1)
           EXCEPT !.fileToTags = MapSet(@, file, tags)] :
          tags \in {collectTags(cache)} } : TRUE

\* indexFile: the indices after indexing the file with the cache the host
\* holds for it
indexFile(idx, file, cache) ==
    IF cache.state # "cached" THEN idx
    ELSE IF cache.hasFrontmatter
    THEN indexProperties(indexFileTags(idx, file, cache), file,
                         cache.frontmatter, 1, <<>>)
    ELSE indexFileTags(idx, file, cache)


\* set.delete(file) on every bucket of a Map of Sets
deleteFromBuckets(buckets, file) ==
    [i \in DOMAIN buckets |->
        [key |-> buckets[i].key, value |-> SetDelete(buckets[i].value, file)]]

\* removeFileFromIndex: the file taken out of every tag bucket and every
\* property bucket, and its tags and properties forgotten
removeFileFromIndex(idx, file) ==
    [idx EXCEPT
       !.tagToFiles = deleteFromBuckets(@, file),
       !.propertyToValueToFiles =
           [i \in DOMAIN @ |->
               [key |-> @[i].key,
                value |-> deleteFromBuckets(@[i].value, file)]],
       !.fileToTags = MapDelete(@, file),
       !.fileToProperties = MapDelete(@, file)]

\* updateFileIndex indexing the file only when it is not indexed yet
updateFileIndexOnce(idx, file, cache) ==
    IF MapHas(idx.fileToTags, file)
    THEN removeFileFromIndex(idx, file)
    ELSE indexFile(idx, file, cache)

\* updateFileIndex: remove the old entries, add the new ones
updateFileIndex(idx, file, cache) ==
    indexFile(removeFileFromIndex(idx, file), file, cache)

\* getFilesWithTag
getFilesWithTag(idx, t) == GetOrNew(idx.tagToFiles, t)

\* getFilesWithProperty(property, value)
getFilesWithProperty(idx, k, v) ==
    GetOrNew(GetOrNew(idx.propertyToValueToFiles, k), v)

\* getFileTags
getFileTags(idx, file) == GetOrNew(idx.fileToTags, file)

\* getFileProperties
getFileProperties(idx, file) == GetOrNew(idx.fileToProperties, file)

\* getAllTags: every tag that has a bucket
getAllTags(idx) == MapKeys(idx.tagToFiles)


(***************************************************************************)
(* VaultIndexer: the files, the events of the host and the batch updates   *)
(***************************************************************************)
DEBOUNCE_MS == 300

\* The time that passes in one step of the clock.
Quantum == DEBOUNCE_MS \div 2

\* Bound of the number of events of the host.
MaxEvents == 3

Files == <<"f1", "f2", "f3">>

TagABC == <<"a", "/", "b", "/", "c">>
TagProjectAlpha == <<"p","r","o","j","e","c","t","/","a","l","p","h","a">>
TagProjectBeta == <<"p","r","o","j","e","c","t","/","b","e","t","a">>

\* tags: [a/b/c], status: x
CacheABC ==
    CachedMetadata(TRUE,
        <<Entry(KeyTags, ArrayValue(<<TagABC>>)),
          Entry(KeyStatus, StringValue(<<"x">>))>>,
        <<>>)

\* tags: "#a/b", position: 1, status: 1, and the inline tags #b and #a/b
CacheAB ==
    CachedMetadata(TRUE,
        <<Entry(KeyTags, StringValue(<<"#", "a", "/", "b">>)),
          Entry(KeyPosition, NumberValue(<<"1">>)),
          Entry(KeyStatus, NumberValue(<<"1">>))>>,
        << <<"#", "b">>, <<"#", "a", "/", "b">> >>)

\* no frontmatter, and the inline tag #a
CacheInlineA == CachedMetadata(FALSE, <<>>, << <<"#", "a">> >>)

\* tags: [project/alpha] and tags: [project/beta]
CacheAlpha ==
    CachedMetadata(TRUE, <<Entry(KeyTags, ArrayValue(<<TagProjectAlpha>>))>>,
                   <<>>)
CacheBeta ==
    CachedMetadata(TRUE, <<Entry(KeyTags, ArrayValue(<<TagProjectBeta>>))>>,
                   <<>>)

\* what a file's metadata may change to
Caches == {CacheABC, CacheAB, CacheInlineA, NoCache}

Vault(c1, c2, c3) == ("f1" :> c1) @@ ("f2" :> c2) @@ ("f3" :> c3)

InitialVaults ==
    { Vault(CacheAlpha, CacheBeta, NoFile),
      Vault(CacheABC, CacheAB, NoFile),
      Vault(CacheInlineA, NoCache, NoFile) }

\* this.app.vault.getMarkdownFiles()
getMarkdownFiles(v) == SelectSeq(Files, LAMBDA f : v[f].state # "absent")

\* indexVault: the loop over the files, from index i on
RECURSIVE indexVault(_, _, _, _)
indexVault(idx, v, files, i) ==
    IF i > Len(files) THEN idx
    ELSE indexVault(indexFile(idx, files[i], v[files[i]]), v, files, i + 1)

CurrentIndices ==
    Indices(tagToFiles, propertyToValueToFiles, fileToTags, fileToProperties,
            tagHierarchyCache)

SetIndices(idx) ==
    /\ tagToFiles' = idx.tagToFiles
    /\ propertyToValueToFiles' = idx.propertyToValueToFiles
    /\ fileToTags' = idx.fileToTags
    /\ fileToProperties' = idx.fileToProperties
    /\ tagHierarchyCache' = idx.tagHierarchyCache

NoTree == <<>>

NoBatch == [files |-> <<>>, done |-> 0, running |-> FALSE, signals |-> 0]

\* history.events: the events the host has still to deliver;
\* history.last: the file of the updateFileIndex call of the last step;
\* history.again: the last two steps were updateFileIndex calls for the same
\*   file, whose metadata was the same at both;
\* history.burst: the scheduleUpdate calls since the last one that came a
\*   full DEBOUNCE_MS or more after the one before it;
\* history.elapsed: the time since the last scheduleUpdate call;
\* history.passes: the calls of processBatchUpdate since then;
\* history.stale: the files handed to scheduleUpdate and not indexed by a
\*   call of processBatchUpdate since;
\* history.late: the files handed to scheduleUpdate since the last call of
\*   processBatchUpdate began.
History(events, last, elapsed, passes, stale, late) ==
    [events |-> events, last |-> last, again |-> FALSE, burst |-> 0,
     elapsed |-> elapsed, passes |-> passes, stale |-> stale, late |-> late]

\* a VaultIndexer just constructed, over a vault whose host has the given
\* number of events to deliver
InitVaultIndexer(events) ==
    /\ pc = "created"
    /\ vault \in InitialVaults
    /\ tagToFiles = <<>>
    /\ propertyToValueToFiles = <<>>
    /\ fileToTags = <<>>
    /\ fileToProperties = <<>>
    /\ tagHierarchyCache = <<>>
    /\ updateQueue = <<>>
    /\ updateTimer = 0
    /\ timers = [next |-> 1, pending |-> {}]
    /\ filesToUpdate = NoBatch
    /\ indexUpdated = FALSE
    /\ tree = NoTree
    /\ treeCache = <<>>
    /\ lastIndexTime = 0
    /\ history = History(events, "", DEBOUNCE_MS, 0, {}, {})
    /\ InitPlugin
    /\ expression = <<>>
    /\ labels = <<>>
    /\ InitParser /\ InitRest /\ InitWild /\ InitTag

InitIndex == InitVaultIndexer(MaxEvents)

otherVars == <<exprVars, wildVars, tagVars, pluginVars>>

\* Date.now() when indexVault ends
Now == 1

\* treeCache.clear()
invalidateCache(cache) == <<>>

\* trigger('index-updated') calls the listener of the TreeBuilder,
\* invalidateCache
Listeners ==
    treeCache' = IF indexUpdated' THEN invalidateCache(treeCache)
                 ELSE treeCache

\* initialize: the full scan
Initialize ==
    /\ pc = "created"
    /\ SetIndices(indexVault(EmptyIndices, vault, getMarkdownFiles(vault), 1))
    /\ lastIndexTime' = Now
    /\ pc' = "ready"
    /\ UNCHANGED <<vault, batchVars, indexUpdated, tree, treeCache, history,
                   otherVars>>

\* The host has one more event to deliver.
HostEvent ==
    /\ pc = "ready"
    /\ history.events > 0

\* metadataCache.on('changed') handled by updateFileIndex: the metadata of
\* the file has become c
Update(file, c) ==
    /\ HostEvent
    /\ vault[file].state # "absent"
    /\ vault' = [vault EXCEPT ![file] = c]
    /\ SetIndices(updateFileIndex(CurrentIndices, file, c))
    /\ indexUpdated' = TRUE
    /\ tree' = NoTree
    /\ Listeners
    /\ UNCHANGED lastIndexTime
    /\ history' = [history EXCEPT
                     !.events = @ - 1, !.last = file,
                     !.again = history.last = file /\ vault[file] = c]
    /\ UNCHANGED <<batchVars, otherVars, pc>>

\* vault.on('delete')
Delete(file) ==
    /\ HostEvent
    /\ vault[file].state # "absent"
    /\ vault' = [vault EXCEPT ![file] = NoFile]
    /\ SetIndices(removeFileFromIndex(CurrentIndices, file))
    /\ indexUpdated' = FALSE
    /\ tree' = NoTree
    /\ Listeners
    /\ UNCHANGED lastIndexTime
    /\ history' = [history EXCEPT !.events = @ - 1, !.last = "",
                                  !.again = FALSE]
    /\ UNCHANGED <<batchVars, otherVars, pc>>

\* vault.on('rename'): the file old is now the file new
Rename(old, new) ==
    /\ HostEvent
    /\ vault[old].state # "absent"
    /\ vault[new].state = "absent"
    /\ vault' = [vault EXCEPT ![old] = NoFile, ![new] = vault[old]]
    /\ SetIndices(updateFileIndex(removeFileFromIndex(CurrentIndices, old),
                                  new, vault[old]))
    /\ indexUpdated' = TRUE
    /\ tree' = NoTree
    /\ Listeners
    /\ UNCHANGED lastIndexTime
    /\ history' = [history EXCEPT !.events = @ - 1, !.last = new,
                                  !.again = FALSE]
    /\ UNCHANGED <<batchVars, otherVars, pc>>


\* clearTimeout(handle)
clearTimeout(tm, handle) ==
    [tm EXCEPT !.pending = {t \in @ : t.handle # handle}]

\* setTimeout(callback, delay): the timers with the new one, whose handle
\* is tm.next
setTimeout(tm, delay) ==
    [next |-> tm.next + 1,
     pending |-> tm.pending \cup {[handle |-> tm.next, left |-> delay]}]

\* scheduleUpdate leaving the timer set before in place
scheduleUpdateNoClear(queue, timer, tm, file) ==
    [updateQueue |-> SetAdd(queue, file),
     updateTimer |-> tm.next,
     timers |-> setTimeout(tm, DEBOUNCE_MS)]

\* scheduleUpdate: the queue, the timer and the host's timers after it
scheduleUpdate(queue, timer, tm, file) ==
    [updateQueue |-> SetAdd(queue, file),
     updateTimer |-> tm.next,
     timers |-> setTimeout(IF timer # 0 THEN clearTimeout(tm, timer) ELSE tm,
                           DEBOUNCE_MS)]

\* metadataCache.on('changed') handled by scheduleUpdate: the metadata of
\* the file has become c
Notify(file, c) ==
    /\ HostEvent
    /\ vault[file].state # "absent"
    /\ vault' = [vault EXCEPT ![file] = c]
    /\ LET s == scheduleUpdate(updateQueue, updateTimer, timers, file) IN
         /\ updateQueue' = s.updateQueue
         /\ updateTimer' = s.updateTimer
         /\ timers' = s.timers
    /\ indexUpdated' = FALSE
    /\ tree' = NoTree
    /\ Listeners
    /\ UNCHANGED lastIndexTime
    /\ history' = [history EXCEPT !.events = @ - 1, !.last = "",
                                  !.again = FALSE,
                                  !.burst = IF history.elapsed < DEBOUNCE_MS
                                            THEN @ + 1 ELSE 1,
                                  !.elapsed = 0, !.passes = 0,
                                  !.stale = @ \cup {file},
                                  !.late = @ \cup {file}]
    /\ UNCHANGED <<indexVars, filesToUpdate, otherVars, pc>>

\* Time passes, while no call of processBatchUpdate is in progress.
Tick ==
    /\ pc = "ready"
    /\ ~filesToUpdate.running
    /\ \/ history.elapsed < DEBOUNCE_MS
       \/ \E t \in timers.pending : t.left > 0
    /\ timers' = [timers EXCEPT !.pending =
                    {[t EXCEPT !.left = IF @ > Quantum THEN @ - Quantum ELSE 0]
                        : t \in @}]
    /\ history' = [history EXCEPT
                     !.last = "", !.again = FALSE,
                     !.elapsed = IF @ + Quantum < DEBOUNCE_MS
                                 THEN @ + Quantum ELSE DEBOUNCE_MS]
    /\ indexUpdated' = FALSE
    /\ tree' = NoTree
    /\ Listeners
    /\ UNCHANGED lastIndexTime
    /\ UNCHANGED <<vault, indexVars, updateQueue, updateTimer, filesToUpdate,
                   otherVars, pc>>

\* processBatchUpdate taking the files of the queue and leaving them in it
takeQueueKeep(queue) == [filesToUpdate |-> queue, updateQueue |-> queue]

\* const filesToUpdate = Array.from(this.updateQueue);
\* this.updateQueue.clear();
takeQueue(queue) == [filesToUpdate |-> queue, updateQueue |-> <<>>]

\* A timer is due and its callback runs: processBatchUpdate up to its
\* first await, or to its end when there is no file to update.
ProcessBatchUpdate ==
    /\ pc = "ready"
    /\ ~filesToUpdate.running
    /\ \E t \in timers.pending :
         /\ t.left = 0
         /\ timers' = [timers EXCEPT !.pending = @ \ {t}]
    /\ LET files == takeQueue(updateQueue).filesToUpdate IN
         /\ updateQueue' = takeQueue(updateQueue).updateQueue
         /\ IF Len(files) = 0
            THEN /\ filesToUpdate' = [NoBatch EXCEPT !.signals = 1]
                 /\ indexUpdated' = TRUE
                 /\ UNCHANGED indexVars
                 /\ history' = [history EXCEPT !.last = "", !.again = FALSE,
                                               !.passes = @ + 1,
                                               !.late = {}]
            ELSE /\ filesToUpdate' = [files |-> files, done |-> 1,
                                      running |-> TRUE, signals |-> 0]
                 /\ indexUpdated' = FALSE
                 /\ SetIndices(indexFile(CurrentIndices, files[1],
                                         vault[files[1]]))
                 /\ history' = [history EXCEPT !.last = "", !.again = FALSE,
                                               !.passes = @ + 1,
                                               !.late = {},
                                               !.stale = @ \ {files[1]}]
    /\ tree' = NoTree
    /\ Listeners
    /\ UNCHANGED lastIndexTime
    /\ UNCHANGED <<vault, updateTimer, otherVars, pc>>

\* processBatchUpdate resumes after an await: the next file is indexed, or
\* the loop is over and 'index-updated' is triggered.
Resume ==
    /\ pc = "ready"
    /\ filesToUpdate.running
    /\ IF filesToUpdate.done < Len(filesToUpdate.files)
       THEN LET file == filesToUpdate.files[filesToUpdate.done + 1] IN
            /\ SetIndices(indexFile(CurrentIndices, file, vault[file]))
            /\ filesToUpdate' = [filesToUpdate EXCEPT !.done = @ + 1]
            /\ indexUpdated' = FALSE
            /\ history' = [history EXCEPT !.last = "", !.again = FALSE,
                                          !.stale = @ \ {file}]
       ELSE /\ filesToUpdate' = [filesToUpdate EXCEPT !.running = FALSE,
                                                      !.signals = @ + 1]
            /\ indexUpdated' = TRUE
            /\ history' = [history EXCEPT !.last = "", !.again = FALSE]
            /\ UNCHANGED indexVars
    /\ tree' = NoTree
    /\ Listeners
    /\ UNCHANGED lastIndexTime
    /\ UNCHANGED <<vault, updateQueue, updateTimer, timers, otherVars, pc>>

NextIndex ==
    \/ Initialize
    \/ \E file \in Range(Files), c \in Caches : Update(file, c)
    \/ \E file \in Range(Files) : Delete(file)
    \/ \E old, new \in Range(Files) : Rename(old, new)
    \/ \E file \in Range(Files), c \in Caches : Notify(file, c)
    \/ Tick
    \/ ProcessBatchUpdate
    \/ Resume

SpecIndex == InitIndex /\ [][NextIndex]_vars


\* The tags t is filed under: its prefixes that end where a segment ends.
Ancestors(t) ==
    { SubSeq(t, 1, n) : n \in {m \in 1..Len(t) : m = Len(t) \/ t[m + 1] = "/"} }

\* The file is in the bucket of the tag.
InTagBucket(file, t) ==
    \E i \in DOMAIN tagToFiles :
        tagToFiles[i].key = t /\ file \in Range(tagToFiles[i].value)

\* The file is in the bucket of the property key and the value's string.
InPropertyBucket(file, k, v) ==
    \E i \in DOMAIN propertyToValueToFiles :
        /\ propertyToValueToFiles[i].key = k
        /\ \E j \in DOMAIN propertyToValueToFiles[i].value :
              /\ propertyToValueToFiles[i].value[j].key = v
              /\ file \in Range(propertyToValueToFiles[i].value[j].value)

\* C14: a document indexed with a tag is in the bucket of every ancestor of
\* the tag and of the tag itself: indexed with a/b/c, it is returned for a,
\* a/b and a/b/c.
C14_AncestorBuckets ==
    pc = "ready" =>
      \A i \in DOMAIN fileToTags :
        /\ \A t \in Range(fileToTags[i].value) :
              \A p \in Ancestors(t) : InTagBucket(fileToTags[i].key, p)
        /\ TagABC \in Range(fileToTags[i].value) =>
              /\ InTagBucket(fileToTags[i].key, <<"a">>)
              /\ InTagBucket(fileToTags[i].key, <<"a", "/", "b">>)
              /\ InTagBucket(fileToTags[i].key, TagABC)

C14_Witness ==
    /\ pc = "ready"
    /\ vault["f1"] = CacheABC
    /\ fileToTags # <<>>
    /\ fileToTags[1] = [key |-> "f1", value |-> <<TagABC>>]
    /\ InTagBucket("f1", <<"a">>)
    /\ InTagBucket("f1", <<"a", "/", "b">>)
    /\ InTagBucket("f1", TagABC)

\* The members of every tag bucket and of every property bucket.
TagBuckets(t2f) ==
    { <<t2f[i].key, Range(t2f[i].value)>> : i \in DOMAIN t2f }

PropertyBuckets(p2v2f) ==
    { <<p2v2f[i].key, TagBuckets(p2v2f[i].value)>> : i \in DOMAIN p2v2f }

\* C15: update(doc) applied a second time in succession, the document's
\* tags and properties being the same, leaves every tag bucket and every
\* property bucket as the first application left it.
C15_UpdateIdempotent ==
    [][\A file \in Range(Files) :
          (history.last = file /\ Update(file, vault[file])) =>
             /\ TagBuckets(tagToFiles') = TagBuckets(tagToFiles)
             /\ PropertyBuckets(propertyToValueToFiles') =
                   PropertyBuckets(propertyToValueToFiles)]_vars

C15_Witness ==
    /\ history.again
    /\ history.last = "f2"
    /\ vault["f2"] = CacheAB
    /\ InTagBucket("f2", <<"a">>)
    /\ InTagBucket("f2", <<"b">>)
    /\ InPropertyBucket("f2", KeyStatus, <<"1">>)


\* A tag as the host gives it, without its marker.
Unmark(raw) == IF Unmarked(raw) THEN raw ELSE Tail(raw)

\* The tags the document has now, by the host's metadata.
CurrentTags(file) ==
    LET c == vault[file] IN
    IF c.state # "cached" THEN {}
    ELSE { Unmark(raw) : raw \in Range(c.tags) } \cup
         UNION { IF c.frontmatter[i].value.type = "array"
                 THEN { Unmark(raw) : raw \in Range(c.frontmatter[i].value.items) }
                 ELSE { Unmark(c.frontmatter[i].value.text) }
                   : i \in { j \in DOMAIN c.frontmatter :
                               c.frontmatter[j].key = KeyTags } }

\* The document has the property now, with a value of that string.
HasProperty(file, k, v) ==
    /\ vault[file].state = "cached"
    /\ k \notin {KeyTags, KeyPosition}
    /\ \E i \in DOMAIN vault[file].frontmatter :
          /\ vault[file].frontmatter[i].key = k
          /\ vault[file].frontmatter[i].value.text = v

\* Every event of the host has been handled to its end.
Settled ==
    /\ pc = "ready"
    /\ ~filesToUpdate.running
    /\ updateQueue = <<>>
    /\ history.stale = {}

\* The tags that have a bucket or are an ancestor of a current tag.
AllTags ==
    { tagToFiles[i].key : i \in DOMAIN tagToFiles } \cup
    UNION { Ancestors(t) :
              t \in UNION { CurrentTags(f) : f \in Range(Files) } }

\* The property values that have a bucket or are a current value.
AllValues(k) ==
    UNION { { propertyToValueToFiles[i].value[j].key :
                j \in DOMAIN propertyToValueToFiles[i].value } :
              i \in { n \in DOMAIN propertyToValueToFiles :
                         propertyToValueToFiles[n].key = k } }
    \cup { <<"x">>, <<"1">> }

\* C16: once every event has been handled (initialize, update, remove,
\* rename, batch passes), a document is in the bucket of a tag exactly when
\* the tag is in the ancestor chain of one of its current tags, and in the
\* bucket of a property key and value exactly when it has that property
\* with that value now.
C16_BucketConsistency ==
    Settled =>
      \A file \in Range(Files) :
        /\ \A t \in AllTags :
              InTagBucket(file, t) <=>
                 \E u \in CurrentTags(file) : t \in Ancestors(u)
        /\ \A k \in {KeyStatus, KeyTags, KeyPosition} :
            \A v \in AllValues(k) :
                InPropertyBucket(file, k, v) <=> HasProperty(file, k, v)


\* C17: with change notifications each less than DEBOUNCE_MS after the one
\* before, at most one timer is pending at any time, no call of
\* processBatchUpdate begins until DEBOUNCE_MS has passed since the last
\* notification, and once the timer has fired exactly one has begun.
C17_Coalescing ==
    pc = "ready" =>
      /\ Cardinality(timers.pending) <= 1
      /\ \A t \in timers.pending : t.handle = updateTimer
      /\ history.passes > 0 => history.elapsed = DEBOUNCE_MS
      /\ history.passes <= 1
      /\ (updateTimer # 0 /\ timers.pending = {}) => history.passes = 1

C17_Witness ==
    /\ pc = "ready"
    /\ history.burst = 3
    /\ history.passes = 1
    /\ history.elapsed = DEBOUNCE_MS
    /\ timers.pending = {}
    /\ filesToUpdate.files = <<"f1", "f2">>

\* The call of processBatchUpdate last begun has triggered 'index-updated'
\* once, after its last file, and has taken its files out of the queue.
HasSignalled ==
    /\ ~filesToUpdate.running
    /\ filesToUpdate.signals = 1
    /\ filesToUpdate.done = Len(filesToUpdate.files)
    /\ Range(updateQueue) \subseteq history.late

\* C18: every document a notification was received for, also during a
\* call of processBatchUpdate, is in the end indexed by such a call once
\* the notifications pause; each call triggers 'index-updated' once, after
\* all the files it took have been indexed, and the queue then holds only
\* files notified since the call began.
C18_EventuallyIndexed ==
    /\ [](pc = "ready" =>
            /\ filesToUpdate.running => filesToUpdate.signals = 0
            /\ ~filesToUpdate.running =>
                  (history.passes > 0 => HasSignalled))
    /\ (history.stale # {}) ~> (history.stale = {})

C18_Witness ==
    /\ HasSignalled
    /\ filesToUpdate.files = <<"f1">>
    /\ updateQueue = <<"f1">>
    /\ history.late = {"f1"}
    /\ history.stale = {"f1"}

\* Bound of the number of change notifications.
MaxNotifications == 3

InitBatch == InitVaultIndexer(MaxNotifications)

NextBatch ==
    \/ Initialize
    \/ \E file \in Range(Files), c \in Caches : Notify(file, c)
    \/ Tick
    \/ ProcessBatchUpdate
    \/ Resume

\* The debounced updates: time passes, a due timer fires, and a call of
\* processBatchUpdate that awaits is resumed.
SpecBatch ==
    /\ InitBatch /\ [][NextBatch]_vars
    /\ WF_vars(Tick)
    /\ WF_vars(ProcessBatchUpdate)
    /\ WF_vars(Resume)


\* A debounced pass has left a document that has no tag now in a tag bucket.
C16_Witness ==
    /\ Settled
    /\ history.passes = 1
    /\ CurrentTags("f1") = {}
    /\ InTagBucket("f1", <<"a">>)



(***************************************************************************)
(* TreeNode and its factory functions                                      *)
(***************************************************************************)
\* A TreeNode.  parent is the position of the node the parent reference
\* names, or NoParent: a node object is named by the indices of the children
\* that lead to it from the root, after the root's own RootPosition.
\* metadata and isExpanded are left out.
TreeNode(id, name, type, children, depth, files, fileCount) ==
    [id |-> id, name |-> name, type |-> type, children |-> children,
     parent |-> <<>>, depth |-> depth, files |-> files,
     fileCount |-> fileCount]

NoParent == <<>>

RootPosition == <<0>>

\* file.path and file.basename
filePath(file) == <<file, ".", "m", "d">>
basename(file) == <<file>>

\* segments[segments.length - 1]
last(a) == a[Len(a)]

createTagNode(tagPath, files, depth) ==
    TreeNode(<<"t", "a", "g", ":">> \o tagPath, last(split(tagPath)), "tag",
             <<>>, depth, files, Len(files))

createPropertyGroupNode(propertyKey, propertyValue, files, depth) ==
    TreeNode(<<"p", "r", "o", "p", ":">> \o propertyKey \o <<":">>
               \o String(propertyValue),
             String(propertyValue), "property-group", <<>>, depth, files,
             Len(files))

createFileNode(file, depth) ==
    TreeNode(<<"f", "i", "l", "e", ":">> \o filePath(file), basename(file),
             "file", <<>>, depth, <<file>>, 1)


(***************************************************************************)
(* TreeBuilder.buildFromTags                                               *)
(***************************************************************************)
RootId == <<"r", "o", "o", "t">>

\* getNestedTagsUnder: the tags of the hierarchy cache that have rootTag in
\* their hierarchy
getNestedTagsUnder(idx, rootTag) ==
    MapKeys(SelectSeq(idx.tagHierarchyCache,
                      LAMBDA en : SetHas(en.value, rootTag)))

\* a.split('/').length
depthOf(t) == Len(split(t))

\* the tags of depth d and more, by depth, those of one depth in the order
\* they have in allTags
RECURSIVE sortFrom(_, _)
sortFrom(allTags, d) ==
    IF \A i \in DOMAIN allTags : depthOf(allTags[i]) < d THEN <<>>
    ELSE SelectSeq(allTags, LAMBDA t : depthOf(t) = d)
           \o sortFrom(allTags, d + 1)

\* allTags.sort((a, b) => depthA - depthB)
sortByDepth(allTags) == sortFrom(allTags, 1)

\* The nodes created so far, in the order of their creation, each with the
\* positions of its children and of its parent (0: none) in place of the
\* references, and nodeMap from keys to positions.
Building(nodes, nodeMap) == [nodes |-> nodes, nodeMap |-> nodeMap]

\* the body of for (const tag of sortedTags)
addTagNode(idx, b, t) ==
    LET segments == split(t)
        node == createTagNode(t, getFilesWithTag(idx, t), Len(segments))
        n == Len(b.nodes) + 1
        nodeMap == MapSet(b.nodeMap, t, n)
        parentTag == join(slice(segments, Len(segments) - 1), <<"/">>)
        parent == IF parentTag # <<>>
                  THEN IF MapHas(nodeMap, parentTag)
                       THEN MapGet(nodeMap, parentTag) ELSE 0
                  ELSE 1
    IN  IF parent # 0
        THEN Building(
               [Append(b.nodes, [node EXCEPT !.parent = parent])
                  EXCEPT ![parent].children = Append(@, n)],
               nodeMap)
        ELSE Building(Append(b.nodes, [node EXCEPT !.parent = 0]), nodeMap)

\* for (const tag of sortedTags), from index i on
RECURSIVE addTagNodes(_, _, _, _)
addTagNodes(idx, b, sortedTags, i) ==
    IF i > Len(sortedTags) THEN b
    ELSE addTagNodes(idx, addTagNode(idx, b, sortedTags[i]), sortedTags, i + 1)

\* the n-th node created, with the nodes its references name; at is its
\* position in the tree.  The parent of a node is the node whose children
\* it was pushed to.
RECURSIVE nodeAt(_, _, _)
nodeAt(nodes, n, at) ==
    [nodes[n] EXCEPT
       !.children = [i \in DOMAIN nodes[n].children |->
                       nodeAt(nodes, nodes[n].children[i], Append(at, i))],
       !.parent = IF nodes[n].parent = 0 THEN NoParent
                  ELSE SubSeq(at, 1, Len(at) - 1)]

\* the sum of the fileCount of the nodes from index i on
RECURSIVE totalFrom(_, _)
totalFrom(children, i) ==
    IF i > Len(children) THEN 0
    ELSE children[i].fileCount + totalFrom(children, i + 1)

\* calculateFileCounts setting the count of the node it is called for only
calculateFileCountsRoot(node) ==
    [node EXCEPT !.fileCount = Len(node.files) + totalFrom(node.children, 1)]

\* calculateFileCounts: the node with the counts of its subtree set
RECURSIVE calculateFileCounts(_)
calculateFileCounts(node) ==
    LET children == [i \in DOMAIN node.children |->
                       calculateFileCounts(node.children[i])]
    IN  [node EXCEPT !.children = children,
                     !.fileCount = Len(node.files) + totalFrom(children, 1)]

NoRootTag == <<>>

buildFromTags(idx, rootTag) ==
    LET allTags == IF rootTag # NoRootTag
                   THEN getNestedTagsUnder(idx, rootTag)
                   ELSE getAllTags(idx)
        root == [TreeNode(RootId, <<"R", "o", "o", "t">>, "tag", <<>>, 0,
                          <<>>, 0) EXCEPT !.parent = 0]
        b == addTagNodes(idx, Building(<<root>>, MapSet(<<>>, RootId, 1)),
                         sortByDepth(allTags), 1)
    IN  calculateFileCounts(nodeAt(b.nodes, 1, RootPosition))



(***************************************************************************)
(* TreeBuilder.buildFromHierarchy                                          *)
(***************************************************************************)
\* A HierarchyLevel; label is empty when the level has none.
HierarchyLevel(type, key, label) == [type |-> type, key |-> key, label |-> label]

\* A HierarchyConfig; rootTag is empty when the config has none.
HierarchyConfig(name, rootTag, levels, defaultExpanded) ==
    [name |-> name, rootTag |-> rootTag, levels |-> levels,
     defaultExpanded |-> defaultExpanded]

Untagged == <<"(", "u", "n", "t", "a", "g", "g", "e", "d", ")">>
None == <<"(", "n", "o", "n", "e", ")">>

\* String.prototype.startsWith
startsWith(s, prefix) ==
    /\ Len(prefix) <= Len(s)
    /\ SubSeq(s, 1, Len(prefix)) = prefix

\* Array.from(tags).find(t => t.startsWith(level.key) || level.key === '')
\* || '(untagged)'
matchingTagOr(tags, level) ==
    LET found == SelectSeq(tags, LAMBDA t : startsWith(t, level.key)
                                              \/ level.key = <<>>)
    IN  IF Len(found) > 0 /\ found[1] # <<>> THEN found[1] ELSE Untagged

\* the group key of the file at the level, as a value of the frontmatter
groupKeyOf(idx, file, level) ==
    IF level.type = "property"
    THEN IF MapHas(getFileProperties(idx, file), level.key)
         THEN MapGet(getFileProperties(idx, file), level.key)
         ELSE StringValue(None)
    ELSE StringValue(matchingTagOr(getFileTags(idx, file), level))

\* groupFilesByLevel with groups.set(groupKey, [file]) in place of the push
RECURSIVE groupFromLast(_, _, _, _, _)
groupFromLast(idx, files, level, i, groups) ==
    IF i > Len(files) THEN groups
    ELSE groupFromLast(idx, files, level, i + 1,
                       MapSet(groups, groupKeyOf(idx, files[i], level),
                              <<files[i]>>))

\* groupFilesByLevel: the loop over the files, from index i on
RECURSIVE groupFrom(_, _, _, _, _)
groupFrom(idx, files, level, i, groups) ==
    IF i > Len(files) THEN groups
    ELSE groupFrom(idx, files, level, i + 1,
                   MapSet(groups, groupKeyOf(idx, files[i], level),
                          Append(GetOrNew(groups,
                                          groupKeyOf(idx, files[i], level)),
                                 files[i])))

groupFilesByLevel(idx, files, level) == groupFrom(idx, files, level, 1, <<>>)

\* const levels index from 0
RECURSIVE buildLevelRecursive(_, _, _, _, _)
buildLevelRecursive(idx, files, levels, depth, parentId) ==
    IF depth >= Len(levels)
    THEN TreeNode(parentId, <<"F", "i", "l", "e", "s">>, "file",
                  [i \in DOMAIN files |-> createFileNode(files[i], depth + 1)],
                  depth, <<>>, Len(files))
    ELSE LET level == levels[depth + 1]
             groups == groupFilesByLevel(idx, files, level)
             group(g) ==
               LET groupKey == groups[g].key
                   groupFiles == groups[g].value
                   node == IF level.type = "tag"
                           THEN createTagNode(String(groupKey), <<>>, depth)
                           ELSE createPropertyGroupNode(level.key, groupKey,
                                                        <<>>, depth)
                   childNode == buildLevelRecursive(
                                  idx, groupFiles, levels, depth + 1,
                                  parentId \o <<":">> \o String(groupKey))
               IN  [node EXCEPT !.children = childNode.children,
                                !.fileCount = Len(groupFiles)]
         IN  TreeNode(parentId,
                      IF level.label # <<>> THEN level.label ELSE level.key,
                      "property-group",
                      [g \in DOMAIN groups |-> group(g)],
                      depth, <<>>, Len(files))

buildFromHierarchy(idx, v, config) ==
    buildLevelRecursive(
       idx,
       IF config.rootTag # NoRootTag
       THEN getFilesWithTag(idx, config.rootTag)
       ELSE getMarkdownFiles(v),
       config.levels, 0, RootId)


(***************************************************************************)
(* The trees built over the index                                          *)
(***************************************************************************)
\* Bound of the number of events of the host before a tree is built.
MaxTreeEvents == 2

RootTags == {NoRootTag, <<"a">>}

LevelStatus == HierarchyLevel("property", KeyStatus, <<>>)
LevelAnyTag == HierarchyLevel("tag", <<>>, <<"T", "a", "g">>)
LevelTagA == HierarchyLevel("tag", <<"a">>, <<>>)

Configs ==
    { HierarchyConfig(<<"v">>, r, ls, 1) :
        r \in RootTags,
        ls \in { <<>>, <<LevelStatus>>, <<LevelAnyTag>>,
                 <<LevelTagA, LevelStatus>>, <<LevelStatus, LevelAnyTag>> } }

\* The tree a call returned, with the call.
Built(method, rootTag, levels, root) ==
    <<[call |-> method, rootTag |-> rootTag, levels |-> levels,
       root |-> root]>>

BuildFromTags(rootTag) ==
    /\ pc = "ready"
    /\ tree' = Built("buildFromTags", rootTag, <<>>,
                     buildFromTags(CurrentIndices, rootTag))
    /\ UNCHANGED <<vault, indexVars, batchVars, indexUpdated, treeCache,
                   lastIndexTime, history, otherVars, pc>>

BuildFromHierarchy(config) ==
    /\ pc = "ready"
    /\ tree' = Built("buildFromHierarchy", config.rootTag, config.levels,
                     buildFromHierarchy(CurrentIndices, vault, config))
    /\ UNCHANGED <<vault, indexVars, batchVars, indexUpdated, treeCache,
                   lastIndexTime, history, otherVars, pc>>

\* The parent references of the nodes below the node at the position at,
\* the children of the root included.
RECURSIVE setParentReferencesAll(_, _)
setParentReferencesAll(node, at) ==
    [node EXCEPT !.children =
       [i \in DOMAIN @ |->
          [setParentReferencesAll(@[i], Append(at, i)) EXCEPT !.parent = at]]]

\* The parent references as the TreeBuilder of tree-builder.ts sets them:
\* every node below the children of the root refers to the node whose
\* children hold it; the children of the root have no reference.
RECURSIVE setParentReferences(_, _)
setParentReferences(node, at) ==
    [node EXCEPT !.children =
       [i \in DOMAIN @ |->
          [setParentReferences(@[i], Append(at, i))
             EXCEPT !.parent = IF at = RootPosition THEN NoParent ELSE at]]]

\* buildFromHierarchy of tree-builder.ts: the tree of the levels, with the
\* parent references set
buildFromHierarchyWithParents(idx, v, config) ==
    setParentReferences(buildFromHierarchy(idx, v, config), RootPosition)

BuildFromHierarchyWithParents(config) ==
    /\ pc = "ready"
    /\ tree' = Built("TreeBuilder.buildFromHierarchy", config.rootTag,
                     config.levels,
                     buildFromHierarchyWithParents(CurrentIndices, vault,
                                                   config))
    /\ UNCHANGED <<vault, indexVars, batchVars, indexUpdated, treeCache,
                   lastIndexTime, history, otherVars, pc>>

InitTree == InitVaultIndexer(MaxTreeEvents)

NextTree ==
    \/ Initialize
    \/ \E file \in Range(Files), c \in Caches : Update(file, c)
    \/ \E file \in Range(Files) : Delete(file)
    \/ \E rootTag \in RootTags : BuildFromTags(rootTag)
    \/ \E config \in Configs : BuildFromHierarchy(config)
    \/ \E config \in Configs : BuildFromHierarchyWithParents(config)

SpecTree == InitTree /\ [][NextTree]_vars

\* The nodes of the tree of the root.
RECURSIVE Nodes(_)
Nodes(root) == {root} \cup UNION { Nodes(root.children[i]) :
                                     i \in DOMAIN root.children }

\* The sum of the aggregate counts of the children of the node.
RECURSIVE SumOfCounts(_)
SumOfCounts(children) ==
    IF children = <<>> THEN 0
    ELSE Head(children).fileCount + SumOfCounts(Tail(children))

\* C19: in every tree buildFromTags or buildFromHierarchy returns, the
\* aggregate count of every node is the number of the documents attached
\* to the node itself plus the sum of the aggregate counts of its children.
C19_AggregateCount ==
    \A i \in DOMAIN tree :
      \A node \in Nodes(tree[i].root) :
        node.fileCount = Len(node.files) + SumOfCounts(node.children)

C19_Witness ==
    /\ tree # NoTree
    /\ tree[1].call = "buildFromHierarchy"
    /\ Len(tree[1].levels) = 2
    /\ tree[1].root.fileCount = 2
    /\ Len(tree[1].root.children) = 2
    /\ \E node \in Nodes(tree[1].root) : node.type = "file"

\* The index holds f1 tagged project/alpha and f2 tagged project/beta, and
\* nothing else.
AlphaBetaIndexed ==
    CurrentIndices =
      indexVault(EmptyIndices, Vault(CacheAlpha, CacheBeta, NoFile),
                 <<"f1", "f2">>, 1)

\* The node has the name and the aggregate count.
Counts(node, name, count) == node.name = name /\ node.fileCount = count

\* C20: with D1 tagged project/alpha and D2 tagged project/beta indexed,
\* buildFromTags() returns a root with the single child project, of
\* aggregate count 2, whose two children alpha and beta have aggregate
\* count 1 each.
C20_ProjectCounts ==
    \A i \in DOMAIN tree :
      (/\ tree[i].call = "buildFromTags"
       /\ tree[i].rootTag = NoRootTag
       /\ AlphaBetaIndexed)
      => /\ Len(tree[i].root.children) = 1
         /\ LET project == tree[i].root.children[1] IN
              /\ Counts(project, <<"p","r","o","j","e","c","t">>, 2)
              /\ Len(project.children) = 2
              /\ Counts(project.children[1], <<"a","l","p","h","a">>, 1)
              /\ Counts(project.children[2], <<"b","e","t","a">>, 1)

\* buildFromTags() has returned the tree for D1 and D2: project holds D1
\* and D2 itself, and its aggregate count is 4.
C20_Reached ==
    /\ tree # NoTree
    /\ tree[1].call = "buildFromTags"
    /\ tree[1].rootTag = NoRootTag
    /\ AlphaBetaIndexed
    /\ Len(tree[1].root.children) = 1
    /\ tree[1].root.children[1].files = <<"f1", "f2">>
    /\ tree[1].root.children[1].fileCount = 4
    /\ tree[1].root.fileCount = 4



\* The nodes of the tree of the root, the root first and every node before
\* its children: one element for every node object.
RECURSIVE NodeList(_)
RECURSIVE NodeListFrom(_, _)
NodeList(root) == <<root>> \o NodeListFrom(root.children, 1)
NodeListFrom(children, i) ==
    IF i > Len(children) THEN <<>>
    ELSE NodeList(children[i]) \o NodeListFrom(children, i + 1)

\* No two nodes of the tree have the same id.
UniqueIds(root) ==
    \A m, n \in DOMAIN NodeList(root) :
       NodeList(root)[m].id = NodeList(root)[n].id => m = n

\* C21: within one built tree no two distinct nodes have the same id, also
\* when the same property value or tag occurs under different parent groups.
C21_UniqueIds == \A i \in DOMAIN tree : UniqueIds(tree[i].root)

\* buildFromHierarchy has grouped by tag and then by status: the groups a
\* and (untagged) each have a child of id prop:status:(none).
C21_Reached ==
    /\ tree # NoTree
    /\ tree[1].call = "buildFromHierarchy"
    /\ tree[1].levels = <<LevelTagA, LevelStatus>>
    /\ Len(tree[1].root.children) = 2
    /\ \A g \in 1..2 :
         /\ Len(tree[1].root.children[g].children) = 1
         /\ tree[1].root.children[g].children[1].id =
              <<"p", "r", "o", "p", ":">> \o KeyStatus \o <<":">> \o None



\* The positions of the nodes of the tree of the node at the position at.
RECURSIVE Positions(_, _)
Positions(node, at) ==
    {at} \cup UNION { Positions(node.children[i], Append(at, i)) :
                        i \in DOMAIN node.children }

\* The node at the position, from the node at the position's first i
\* indices on.
RECURSIVE NodeFrom(_, _, _)
NodeFrom(node, position, i) ==
    IF i >= Len(position) THEN node
    ELSE NodeFrom(node.children[position[i + 1]], position, i + 1)

NodeAt(root, position) == NodeFrom(root, position, 1)

getLastIndexTime(time) == time

\* hashConfig: JSON.stringify of the name, the root tag, the levels and the
\* timestamp
hashConfig(config, time) ==
    [name |-> config.name, rootTag |-> config.rootTag,
     levels |-> config.levels, timestamp |-> getLastIndexTime(time)]

\* The TreeNode a call of the memoized buildFromHierarchy built, with the
\* configuration, the indices and the files it was built from.
BuiltFrom(root, config, idx, files) ==
    [root |-> root, config |-> config, indices |-> idx, files |-> files]

\* What the memoized buildFromHierarchy returns, and the cache it leaves.
buildFromHierarchyMemoized(cache, idx, v, time, config) ==
    LET cacheKey == hashConfig(config, time) IN
    IF MapHas(cache, cacheKey)
    THEN [tree |-> MapGet(cache, cacheKey), treeCache |-> cache,
          cached |-> TRUE]
    ELSE LET built == BuiltFrom(buildFromHierarchy(idx, v, config), config,
                                idx, getMarkdownFiles(v))
         IN  [tree |-> built, treeCache |-> MapSet(cache, cacheKey, built),
              cached |-> FALSE]

\* Bound of the number of events of the host between the memoized builds.
MaxCacheEvents == 2

CacheConfigs ==
    { HierarchyConfig(<<"v">>, NoRootTag, ls, d) :
        ls \in { <<LevelStatus>>, <<LevelAnyTag>> }, d \in 1..2 }

BuildFromHierarchyMemoized(config) ==
    /\ pc = "ready"
    /\ LET r == buildFromHierarchyMemoized(treeCache, CurrentIndices, vault,
                                           lastIndexTime, config)
       IN  /\ treeCache' = r.treeCache
           /\ tree' = <<[call |-> "memoized buildFromHierarchy",
                         rootTag |-> config.rootTag,
                         levels |-> config.levels,
                         root |-> r.tree.root,
                         config |-> config,
                         cached |-> r.cached,
                         from |-> r.tree]>>
    /\ UNCHANGED <<vault, indexVars, batchVars, indexUpdated, lastIndexTime,
                   history, otherVars, pc>>

InitCache == InitVaultIndexer(MaxCacheEvents)

NextCache ==
    \/ Initialize
    \/ \E file \in Range(Files), c \in Caches : Update(file, c)
    \/ \E file \in Range(Files) : Delete(file)
    \/ \E config \in CacheConfigs : BuildFromHierarchyMemoized(config)

SpecCache == InitCache /\ [][NextCache]_vars

\* The last call returned a tree of the cache.
ReturnedCached(i) ==
    /\ tree[i].call = "memoized buildFromHierarchy"
    /\ tree[i].cached

\* C23: buildFromHierarchy returns a memoized tree only if the tree was
\* built from the same configuration, in every field, and from the same
\* state of the index as the current ones.
C23_MemoizedCurrent ==
    \A i \in DOMAIN tree :
      ReturnedCached(i) =>
        /\ tree[i].from.config = tree[i].config
        /\ tree[i].from.indices = CurrentIndices
        /\ tree[i].from.files = getMarkdownFiles(vault)

\* A tree built for a configuration has been returned for one that differs
\* in defaultExpanded.
C23_Reached ==
    /\ tree # NoTree
    /\ ReturnedCached(1)
    /\ tree[1].from.config.defaultExpanded # tree[1].config.defaultExpanded
    /\ tree[1].from.indices = CurrentIndices



\* The name of the group of the file at the level of the property status:
\* the value the file has for it now, or the sentinel.
StatusGroup(file) ==
    LET fm == vault[file].frontmatter
        at == { i \in DOMAIN fm : fm[i].key = KeyStatus }
    IN  IF vault[file].state = "cached" /\ at # {}
        THEN String(fm[CHOOSE i \in at : TRUE].value)
        ELSE None

\* The places of the file among the file nodes of the groups.
PlacesOf(groups, file) ==
    { <<g, c>> \in (DOMAIN groups) \X (1..Len(Files)) :
         /\ c \in DOMAIN groups[g].children
         /\ groups[g].children[c].files = <<file>> }

\* A tree of the single level of the property status over all the files.
ByStatus(i) ==
    /\ tree[i].call = "buildFromHierarchy"
    /\ tree[i].levels = <<LevelStatus>>
    /\ tree[i].rootTag = NoRootTag

normalizerOf(which, t) ==
    IF which = "normalized" THEN normalizeTag(t) ELSE utilsNormalizeTag(t)

Normalized == pc \in {"normalized", "normalized-utils"}

\* C25: the normalized tag has no leading '#', its remaining characters are
\* those of the input (case included), and normalizing it again changes nothing.
C25_NormalizeTag ==
    Normalized =>
        /\ Unmarked(normalizedTag)
        /\ normalizedTag = Unmark(tag)
        /\ normalizerOf(pc, normalizedTag) = normalizedTag

\* the utilities' normalizeTag was given "#Project" and returned "project"
C25_LowerCased ==
    /\ pc = "normalized-utils"
    /\ tag = <<"#", "P", "r", "o", "j", "e", "c", "t">>
    /\ normalizedTag = <<"p", "r", "o", "j", "e", "c", "t">>


(***************************************************************************)
(* Outcomes of parse                                                       *)
(***************************************************************************)
\* C26: for an expression that is not empty or whitespace-only parse returns
\* either an AST and no error or no AST and at least one error, never an AST
\* with errors and never no AST without an error.
C26_AstOrErrors ==
    (Parsed /\ ~TrimIsEmpty(expression)) =>
      /\ ~result.thrown
      /\ \/ result.ast # NULL /\ result.errors = <<>>
         \/ result.ast = NULL /\ result.errors # <<>>

\* "a)" parses to the operand a and leaves the ')' over: the AST is dropped
\* and the one error is reported
C26_Witness ==
    /\ pc = "parsed"
    /\ expression = <<"a", ")">>
    /\ result.ast = NULL
    /\ Len(result.errors) = 1

\* C27: for an expression with a syntax error, evaluate of the AST parse
\* returned is not true for every map of filter results.
C27_FailedParseMatchesNotAll ==
    (Parsed /\ result.errors # <<>>) =>
      \E fr \in FilterResultMaps : ~evaluate(result.ast, fr).value

\* "a&" was parsed with an error and evaluate of its AST returned true
\* although the one label is false
C27_Reached ==
    /\ pc = "evaluated"
    /\ expression = <<"a", "&">>
    /\ result.errors # <<>>
    /\ filterResults = (<<"a">> :> FALSE)
    /\ evalResult.value = TRUE

(***************************************************************************)
(* A parser instance used again                                            *)
(***************************************************************************)
\* The expressions handed to an instance that has parsed before: accepted
\* ones, blank ones, and ones failing in the tokenizer, in parsePrimary and
\* on a token left over.
LaterInputs ==
    { <<" ">>, <<"a">>, <<"b">>, <<"a", "&", "b">>,
      <<"#">>, <<"a", "&">>, <<"(", "a">>, <<"a", ")">> }

\* result = parser.parse(e) on the instance of the parse before
ParseAgain(e) ==
    /\ pc \in {"parsed", "reparsed"}
    /\ expression' = e
    /\ \E r \in {parse(e, tokens)} :
         /\ result' = [thrown |-> r.thrown, ast |-> r.ast, errors |-> r.errors]
         /\ tokens' = r.tokens
         /\ current' = r.current
         /\ errors' = r.errors
    /\ pc' = "reparsed"
    /\ UNCHANGED <<filterResults, evalResult, validLabels, validation, labels,
                   wildVars, tagVars, vaultVars>>

NextReuse ==
    \/ Parse
    \/ \E e \in LaterInputs : ParseAgain(e)

SpecReuse == InitExpr /\ [][NextReuse]_vars

\* what parse returns on an instance that has not parsed before
FreshResult(e) ==
    CHOOSE fresh \in { [thrown |-> r.thrown, ast |-> r.ast, errors |-> r.errors]
                         : r \in {parse(e, <<>>)} } : TRUE

\* C28: after any sequence of earlier parse calls on the instance, accepted
\* or failing, parse(e) returns what a fresh instance returns for e.
C28_ParseDependsOnInputOnly ==
    pc = "reparsed" => result = FreshResult(expression)

\* the instance still holds the tokens of "a&", which it failed to parse,
\* and returns for a blank expression what a fresh instance returns
C28_Witness ==
    /\ pc = "reparsed"
    /\ expression = <<" ">>
    /\ tokens = TokenizeLoop(<<"a", "&">>, 0, <<>>).tokens
    /\ result = NoResult


(***************************************************************************)
(* TagTreeView: the debounced save of the view state                       *)
(***************************************************************************)
VIEW_DEBOUNCE_MS == 500

\* The time that passes in one step of the view's clock.
ViewQuantum == VIEW_DEBOUNCE_MS \div 2

\* Bound of the number of saveViewState calls of the tree component.
MaxViewEvents == 4

languageVars == <<exprVars, wildVars, tagVars>>

indexerVars == <<vault, indexVars, updateQueue, updateTimer, filesToUpdate,
                 indexUpdated, tree, treeCache, lastIndexTime>>

settingsVars == <<data, settings, savedData>>

\* history.events: the saveViewState calls the component has still to make;
\* history.burst: the saveViewState calls since the last one that came a
\*   full VIEW_DEBOUNCE_MS after the one before;
\* history.elapsed: the time since the last saveViewState call;
\* history.passes: the saves of the timer since then;
\* history.closing: the saves onClose made;
\* history.late: the saves made after onClose.
ViewHistory(events, burst, elapsed, passes, closing, late) ==
    [events |-> events, burst |-> burst, elapsed |-> elapsed,
     passes |-> passes, closing |-> closing, late |-> late]

\* no indexer, parser or matcher is involved
InitPluginOnly ==
    /\ vault = <<>>
    /\ tagToFiles = <<>>
    /\ propertyToValueToFiles = <<>>
    /\ fileToTags = <<>>
    /\ fileToProperties = <<>>
    /\ tagHierarchyCache = <<>>
    /\ updateQueue = <<>>
    /\ updateTimer = 0
    /\ filesToUpdate = <<>>
    /\ indexUpdated = FALSE
    /\ tree = <<>>
    /\ treeCache = <<>>
    /\ lastIndexTime = 0
    /\ expression = <<>>
    /\ labels = <<>>
    /\ InitParser /\ InitRest /\ InitWild /\ InitTag

\* a TagTreeView just constructed
InitView ==
    /\ pc = "view"
    /\ treeComponent = FALSE
    /\ saveStateTimer = 0
    /\ saves = 0
    /\ timers = [next |-> 1, pending |-> {}]
    /\ history = ViewHistory(MaxViewEvents, 0, VIEW_DEBOUNCE_MS, 0, 0, 0)
    /\ data = <<>> /\ settings = <<>> /\ savedData = <<>>
    /\ InitPluginOnly

\* onOpen: the tree component is created when the indexer and the builder
\* have returned (ok), and is not when one of them has thrown
OnOpen(ok) ==
    /\ pc = "view"
    /\ treeComponent' = ok
    /\ pc' = "open"
    /\ UNCHANGED <<saveStateTimer, saves, timers, history, settingsVars,
                   indexerVars, languageVars>>

\* saveViewState leaving the timer set before in place
saveViewStateNoClear(timer, tm) ==
    [saveStateTimer |-> tm.next,
     timers |-> setTimeout(tm, VIEW_DEBOUNCE_MS)]

\* saveViewState: the timer and the host's timers after it
saveViewState(timer, tm) ==
    [saveStateTimer |-> tm.next,
     timers |-> setTimeout(IF timer # 0 THEN clearTimeout(tm, timer) ELSE tm,
                           VIEW_DEBOUNCE_MS)]

\* saveViewStateImmediate: the number of saveSettings calls after it
saveViewStateImmediate(component, n) ==
    IF ~component THEN n ELSE n + 1

\* the callback the tree component was given: this.saveViewState()
SaveViewState ==
    /\ pc = "open"
    /\ treeComponent
    /\ history.events > 0
    /\ LET s == saveViewState(saveStateTimer, timers) IN
         /\ saveStateTimer' = s.saveStateTimer
         /\ timers' = s.timers
    /\ history' = [history EXCEPT !.events = @ - 1,
                                  !.burst = IF history.elapsed < VIEW_DEBOUNCE_MS
                                            THEN @ + 1 ELSE 1,
                                  !.elapsed = 0, !.passes = 0]
    /\ UNCHANGED <<pc, treeComponent, saves, settingsVars, indexerVars,
                   languageVars>>

\* Time passes.
ViewTick ==
    /\ pc \in {"open", "closed"}
    /\ \/ history.elapsed < VIEW_DEBOUNCE_MS
       \/ \E t \in timers.pending : t.left > 0
    /\ timers' = [timers EXCEPT !.pending =
                    {[t EXCEPT !.left = IF @ > ViewQuantum
                                        THEN @ - ViewQuantum ELSE 0]
                        : t \in @}]
    /\ history' = [history EXCEPT
                     !.elapsed = IF @ + ViewQuantum < VIEW_DEBOUNCE_MS
                                 THEN @ + ViewQuantum ELSE VIEW_DEBOUNCE_MS]
    /\ UNCHANGED <<pc, treeComponent, saveStateTimer, saves, settingsVars,
                   indexerVars, languageVars>>

\* A due timer fires: saveViewStateImmediate(); saveStateTimer = null
SaveTimerFires ==
    /\ pc \in {"open", "closed"}
    /\ \E t \in timers.pending :
         /\ t.left = 0
         /\ timers' = [timers EXCEPT !.pending = @ \ {t}]
    /\ saves' = saveViewStateImmediate(treeComponent, saves)
    /\ saveStateTimer' = 0
    /\ history' = [history EXCEPT
                     !.passes = @ + (saves' - saves),
                     !.late = @ + (IF pc = "closed" THEN saves' - saves ELSE 0)]
    /\ UNCHANGED <<pc, treeComponent, settingsVars, indexerVars, languageVars>>

\* onClose
OnClose ==
    /\ pc = "open"
    /\ saves' = saveViewStateImmediate(treeComponent, saves)
    /\ IF saveStateTimer # 0
       THEN /\ timers' = clearTimeout(timers, saveStateTimer)
            /\ saveStateTimer' = 0
       ELSE UNCHANGED <<timers, saveStateTimer>>
    /\ history' = [history EXCEPT !.closing = saves' - saves]
    /\ pc' = "closed"
    /\ UNCHANGED <<treeComponent, settingsVars, indexerVars, languageVars>>

NextView ==
    \/ \E ok \in BOOLEAN : OnOpen(ok)
    \/ SaveViewState
    \/ ViewTick
    \/ SaveTimerFires
    \/ OnClose

SpecView == InitView /\ [][NextView]_vars

\* The timer and the saves of the view while it is open and after.
SingleSave ==
    /\ Cardinality(timers.pending) <= 1
    /\ \A t \in timers.pending : t.handle = saveStateTimer
    /\ history.passes > 0 => history.elapsed = VIEW_DEBOUNCE_MS
    /\ history.passes <= 1
    /\ (pc = "open" /\ history.burst > 0 /\ timers.pending = {}) =>
          history.passes = 1

NoTimerAfterClose ==
    pc = "closed" =>
      /\ timers.pending = {}
      /\ saveStateTimer = 0
      /\ history.late = 0

\* C29 as stated: at most one save timer is pending at any time,
\* saveViewState calls less than 500 ms apart lead to a single save after the
\* last call, and after onClose the state has been saved once immediately, no
\* timer remains and no save happens.
C29_SingleSaveAndSaveOnClose ==
    pc \in {"open", "closed"} =>
      /\ SingleSave
      /\ NoTimerAfterClose
      /\ pc = "closed" => history.closing = 1

\* C29 (amended): at most one save timer is pending at any time,
\* saveViewState calls less than 500 ms apart lead to a single save after the
\* last call, and after onClose no timer remains, no save happens, and the
\* state has been saved once immediately if the view has its tree component
\* and not at all if onOpen failed before creating it.
C29_SingleSaveAndSaveOnCloseOfOpenedView ==
    pc \in {"open", "closed"} =>
      /\ SingleSave
      /\ NoTimerAfterClose
      /\ pc = "closed" =>
            history.closing = (IF treeComponent THEN 1 ELSE 0)

\* two calls less than 500 ms apart were saved once by the timer, 500 ms
\* after the second, and onClose has saved once more and left no timer
C29_Witness ==
    /\ pc = "closed"
    /\ treeComponent
    /\ history.burst = 2
    /\ history.passes = 1
    /\ history.closing = 1
    /\ saves = 2
    /\ timers.pending = {}


(***************************************************************************)
(* Plugin settings: migrateSettings and loadSettings                       *)
(***************************************************************************)
\* An object is a function from its property names to their values.
EmptyObject == <<>>

\* obj[k] = v
setProperty(obj, k, v) == (k :> v) @@ obj

\* delete obj[k]
deleteProperty(obj, k) == [x \in DOMAIN obj \ {k} |-> obj[x]]

\* !obj[k] for a property that holds a string when it is there
falsy(obj, k) == k \notin DOMAIN obj \/ obj[k] = ""

\* Object.assign({}, target, source)
objectAssign(target, source) == source @@ target

DEFAULT_VIEW_STATE ==
    [sortMode |-> "none", showFiles |-> TRUE]

\* DEFAULT_SETTINGS without savedViews, which every loaded data brings
DEFAULT_SETTINGS ==
    [defaultViewName |-> "All Tags",
     viewStates |-> ("All Tags" :> DEFAULT_VIEW_STATE),
     enableLevelColors |-> FALSE,
     levelColorMode |-> "background"]

\* the body of savedViews.forEach overwriting the new properties
migrateViewOverwriting(view) ==
    LET renamed ==
          IF "sortMode" \in DOMAIN view
          THEN deleteProperty(
                 setProperty(setProperty(view, "defaultFileSortMode",
                                         view["sortMode"]),
                             "defaultNodeSortMode", view["sortMode"]),
                 "sortMode")
          ELSE view
        withNode == IF falsy(renamed, "defaultNodeSortMode")
                    THEN setProperty(renamed, "defaultNodeSortMode", "alpha-asc")
                    ELSE renamed
    IN IF falsy(withNode, "defaultFileSortMode")
       THEN setProperty(withNode, "defaultFileSortMode", "alpha-asc")
       ELSE withNode

\* the body of savedViews.forEach
migrateView(view) ==
    LET withFile == IF falsy(view, "defaultFileSortMode")
                    THEN setProperty(view, "defaultFileSortMode",
                                     view["sortMode"])
                    ELSE view
        withBoth == IF falsy(withFile, "defaultNodeSortMode")
                    THEN setProperty(withFile, "defaultNodeSortMode",
                                     view["sortMode"])
                    ELSE withFile
        renamed == IF "sortMode" \in DOMAIN view
                   THEN deleteProperty(withBoth, "sortMode")
                   ELSE view
        withNode == IF falsy(renamed, "defaultNodeSortMode")
                    THEN setProperty(renamed, "defaultNodeSortMode", "alpha-asc")
                    ELSE renamed
    IN IF falsy(withNode, "defaultFileSortMode")
       THEN setProperty(withNode, "defaultFileSortMode", "alpha-asc")
       ELSE withNode

\* the body of Object.values(viewStates).forEach
migrateState(state) ==
    LET withFile == IF falsy(state, "fileSortMode")
                    THEN setProperty(state, "fileSortMode", state["sortMode"])
                    ELSE state
        renamed == IF "sortMode" \in DOMAIN state
                   THEN deleteProperty(withFile, "sortMode")
                   ELSE state
    IN IF "levelSortOverrides" \notin DOMAIN renamed
       THEN setProperty(renamed, "levelSortOverrides", EmptyObject)
       ELSE renamed

migrateSettings(s) ==
    LET views == [i \in DOMAIN s["savedViews"] |->
                    migrateView(s["savedViews"][i])]
        states == [k \in DOMAIN s["viewStates"] |->
                     migrateState(s["viewStates"][k])]
        migrated == setProperty(setProperty(s, "savedViews", views),
                                "viewStates", states)
        withColors == IF "enableLevelColors" \notin DOMAIN migrated
                      THEN setProperty(migrated, "enableLevelColors", FALSE)
                      ELSE migrated
    IN IF falsy(withColors, "levelColorMode")
       THEN setProperty(withColors, "levelColorMode", "background")
       ELSE withColors

\* Bound of the number of saved views.
MaxViews == 2

\* The sort modes the loaded data holds.
SortModes == {"none", "count-desc"}

SortProperties == {"sortMode", "defaultFileSortMode", "defaultNodeSortMode"}

\* Every saved view with some of the sort properties.
SavedViews ==
    UNION { { ("name" :> "v") @@ f : f \in [D -> SortModes] }
              : D \in SUBSET SortProperties }

\* View states as the versions of the plugin have written them.
ViewStates ==
    { DEFAULT_VIEW_STATE,
      [showFiles |-> FALSE],
      [showFiles |-> TRUE, sortMode |-> "count-desc", fileSortMode |-> "none"],
      [showFiles |-> TRUE, fileSortMode |-> "count-desc",
       levelSortOverrides |-> EmptyObject] }

\* What loadData() returns.
LoadedData ==
    { ("savedViews" :> views) @@ states @@ colors :
        views \in UNION { [1..n -> SavedViews] : n \in 0..MaxViews },
        states \in {EmptyObject}
                     \cup { "viewStates" :> ("k" :> st) : st \in ViewStates },
        colors \in {EmptyObject, "levelColorMode" :> "border"} }

\* a plugin about to load its settings
InitSettings ==
    /\ pc = "data"
    /\ data \in LoadedData
    /\ settings = EmptyObject
    /\ savedData = EmptyObject
    /\ treeComponent = FALSE
    /\ saveStateTimer = 0
    /\ saves = 0
    /\ timers = <<>>
    /\ history = <<>>
    /\ InitPluginOnly

\* loadSettings
LoadSettings ==
    /\ pc = "data"
    /\ settings' = migrateSettings(objectAssign(DEFAULT_SETTINGS, data))
    /\ savedData' = settings'
    /\ pc' = "loaded"
    /\ UNCHANGED <<data, treeComponent, saveStateTimer, saves, timers, history,
                   indexerVars, languageVars>>

\* migrateSettings(this.settings) once more
MigrateAgain ==
    /\ pc = "loaded"
    /\ settings' = migrateSettings(settings)
    /\ pc' = "migrated again"
    /\ UNCHANGED <<data, savedData, treeComponent, saveStateTimer, saves,
                   timers, history, indexerVars, languageVars>>

NextSettings == LoadSettings \/ MigrateAgain

SpecSettings == InitSettings /\ [][NextSettings]_vars

\* C30: after migrateSettings no saved view and no view state has a sortMode,
\* every saved view has defaultNodeSortMode and defaultFileSortMode, with the
\* values the loaded view had for them where it had any, and migrating a
\* second time changes nothing.
C30_Migrated ==
    pc \in {"loaded", "migrated again"} =>
      /\ \A i \in DOMAIN settings["savedViews"] :
           LET view == settings["savedViews"][i]
               old == data["savedViews"][i]
           IN /\ "sortMode" \notin DOMAIN view
              /\ \A k \in {"defaultNodeSortMode", "defaultFileSortMode"} :
                    /\ k \in DOMAIN view
                    /\ k \in DOMAIN old => view[k] = old[k]
      /\ \A k \in DOMAIN settings["viewStates"] :
           "sortMode" \notin DOMAIN settings["viewStates"][k]
      /\ DOMAIN settings["savedViews"] = DOMAIN data["savedViews"]
      /\ migrateSettings(settings) = settings
      /\ settings = savedData

\* a view with sortMode "count-desc" and defaultNodeSortMode "none" keeps
\* the one and gets the other from the old property, and the default view
\* state has its sortMode renamed
C30_Witness ==
    /\ pc = "migrated again"
    /\ data["savedViews"] =
         <<[name |-> "v", sortMode |-> "count-desc",
            defaultNodeSortMode |-> "none"]>>
    /\ settings["savedViews"] =
         <<[name |-> "v", defaultFileSortMode |-> "count-desc",
            defaultNodeSortMode |-> "none"]>>
    /\ "All Tags" \in DOMAIN settings["viewStates"]
    /\ settings["viewStates"]["All Tags"] =
         [showFiles |-> TRUE, fileSortMode |-> "none",
          levelSortOverrides |-> EmptyObject]

=============================================================================
